---- MODULE Spec2Model ----
(***************************************************************************)
(* Model of the viewport controller (class World, src/geometry.js) of the  *)
(* plotter: the world<->screen affine transform, the drag state machine,   *)
(* the wheel zoom/rotate update and the render pass over world.shapes.     *)
(*                                                                         *)
(* Numbers.  The program computes with IEEE doubles; the model computes    *)
(* with exact rationals n / (d * 2^e) in lowest terms.  Every arithmetic  *)
(* expression of the source is translated operation by operation.          *)
(***************************************************************************)
EXTENDS Integers, Sequences, FiniteSets, TLC

\* ------------------------------------------------------------------ numbers
Abs(i) == IF i < 0 THEN -i ELSE i

RECURSIVE GCD(_, _)
GCD(a, b) == IF b = 0 THEN a ELSE GCD(b, a % b)

\* A number is the exact rational n / (d * 2^e) in lowest terms: d > 0 is odd
\* and e >= 0 counts the factors 2 of the denominator, so that magnitudes
\* below Number.EPSILON have a value.
RECURSIVE StripNum(_, _, _)
StripNum(n, d, e) ==
    IF n = 0 THEN [n |-> 0, d |-> 1, e |-> 0]
    ELSE IF e > 0 /\ n % 2 = 0 THEN StripNum(n \div 2, d, e - 1)
    ELSE [n |-> n, d |-> d, e |-> e]

RECURSIVE StripDen(_, _, _)
StripDen(n, d, e) ==
    IF d % 2 = 0 THEN StripDen(n, d \div 2, e + 1) ELSE StripNum(n, d, e)

\* n / (d * 2^e) for any integers n, d # 0 and e >= 0
RatScaled(n, d, e) ==
    LET Reduced(g) == IF d < 0 THEN StripDen((-n) \div g, (-d) \div g, e)
                      ELSE StripDen(n \div g, d \div g, e)
    IN  Reduced(GCD(Abs(n), Abs(d)))

Rat(n, d) == RatScaled(n, d, 0)

Num(i) == [n |-> i, d |-> 1, e |-> 0]

IsInteger(p) == p.d = 1 /\ p.e = 0

\* JS binary +, -, *, / and unary - on numbers
RAdd(p, q) ==
    IF p.n = 0 THEN q
    ELSE IF q.n = 0 THEN p
    ELSE IF IsInteger(p) /\ IsInteger(q) THEN [n |-> p.n + q.n, d |-> 1, e |-> 0]
    ELSE LET Sum(g, e) ==
                 RatScaled(p.n * (2 ^ (e - p.e)) * (q.d \div g)
                             + q.n * (2 ^ (e - q.e)) * (p.d \div g),
                           (p.d \div g) * q.d, e)
         IN  Sum(GCD(p.d, q.d), IF p.e < q.e THEN q.e ELSE p.e)
RNeg(p) == [n |-> -p.n, d |-> p.d, e |-> p.e]
RSub(p, q) == RAdd(p, RNeg(q))
RMul(p, q) ==
    IF p.n = 0 \/ q.n = 0 THEN [n |-> 0, d |-> 1, e |-> 0]
    ELSE IF IsInteger(p) /\ IsInteger(q) THEN [n |-> p.n * q.n, d |-> 1, e |-> 0]
    ELSE LET Product(g1, g2) ==
                 StripNum((p.n \div g1) * (q.n \div g2), (p.d \div g2) * (q.d \div g1),
                          p.e + q.e)
         IN  Product(GCD(Abs(p.n), q.d), GCD(Abs(q.n), p.d))
RDiv(p, q) == RMul(p, Rat(q.d * (2 ^ q.e), q.n))
\* JS <, <= on numbers
RLt(p, q) == RSub(p, q).n < 0
RLe(p, q) == RSub(p, q).n <= 0
\* Math.abs, Math.min, Math.max
RAbs(p) == [n |-> Abs(p.n), d |-> p.d, e |-> p.e]
RMin(p, q) == IF RLt(q, p) THEN q ELSE p
RMax(p, q) == IF RLt(p, q) THEN q ELSE p

RECURSIVE HalveTimes(_, _)
HalveTimes(i, k) == IF k = 0 \/ i = 0 THEN i ELSE HalveTimes(i \div 2, k - 1)

\* x < 2^-k for a non-negative x = n / (d * 2^e):
\*   e >= k:  n < d * 2^(e-k)   iff  n div 2^(e-k) < d
\*   e <  k:  n * 2^(k-e) < d   iff  n <= (d-1) div 2^(k-e)
BelowPower(p, k) ==
    IF p.e >= k THEN HalveTimes(p.n, p.e - k) < p.d
    ELSE p.n <= HalveTimes(p.d - 1, k - p.e)

\* Number.EPSILON is 2^-52
EpsilonExponent == 52
\* x < Number.EPSILON for a non-negative x
BelowEpsilon(p) == BelowPower(p, EpsilonExponent)

\* --------------------------------------------------------------------- Vec2
Vec2(x, y) == [x |-> x, y |-> y]
Vec2_ZERO == Vec2(Num(0), Num(0))
Vec2_EX == Vec2(Num(1), Num(0))
Vec2_EY == Vec2(Num(0), Num(1))
Vec2_add(v, other) == Vec2(RAdd(v.x, other.x), RAdd(v.y, other.y))
Vec2_negative(v) == Vec2(RNeg(v.x), RNeg(v.y))
Vec2_scale(v, scalar) == Vec2(RMul(scalar, v.x), RMul(scalar, v.y))
Vec2_subtract(v, other) == Vec2(RSub(v.x, other.x), RSub(v.y, other.y))
Vec2_dot(v, other) == RAdd(RMul(v.x, other.x), RMul(v.y, other.y))

\* ------------------------------------------------------------------ Matrix2
Matrix2(a, b, c, d) == [a |-> a, b |-> b, c |-> c, d |-> d]
Matrix2_fromColumns(col1, col2) == Matrix2(col1.x, col2.x, col1.y, col2.y)
Matrix2_apply(m, vector) ==
    Vec2(RAdd(RMul(m.a, vector.x), RMul(m.b, vector.y)),
         RAdd(RMul(m.c, vector.x), RMul(m.d, vector.y)))
Matrix2_scale(m, scalar) ==
    Matrix2(RMul(m.a, scalar), RMul(m.b, scalar), RMul(m.c, scalar), RMul(m.d, scalar))
Matrix2_determinant(m) == RSub(RMul(m.a, m.d), RMul(m.b, m.c))
\* inverse() throws "Matrix is singular" exactly when this holds
Matrix2_inverse_throws(m) == BelowEpsilon(RAbs(Matrix2_determinant(m)))
Matrix2_inverse(m) ==
    Matrix2_scale(Matrix2(m.d, RNeg(m.b), RNeg(m.c), m.a),
                  RDiv(Num(1), Matrix2_determinant(m)))
Matrix2_multiply(m, other) ==
    Matrix2(RAdd(RMul(m.a, other.a), RMul(m.b, other.c)),
            RAdd(RMul(m.a, other.b), RMul(m.b, other.d)),
            RAdd(RMul(m.c, other.a), RMul(m.d, other.c)),
            RAdd(RMul(m.c, other.b), RMul(m.d, other.d)))

\* ---------------------------------------------------------- AffineTransform
AffineTransform(linear, translation) == [linear |-> linear, translation |-> translation]
AffineTransform_apply(t, vector) == Vec2_add(Matrix2_apply(t.linear, vector), t.translation)
AffineTransform_inverse_throws(t) == Matrix2_inverse_throws(t.linear)
\* inverse() that negates the translation without mapping it through invLinear
AffineTransform_inverse_unmapped(t) ==
    AffineTransform(Matrix2_inverse(t.linear), Vec2_scale(t.translation, Num(-1)))
AffineTransform_inverse(t) ==
    LET Inverse(invLinear) ==
            AffineTransform(invLinear,
                            Vec2_scale(Matrix2_apply(invLinear, t.translation), Num(-1)))
    IN  Inverse(Matrix2_inverse(t.linear))


\* magnitude(): Math.sqrt of the dot product; exact on the perfect squares
\* the render pass meets (axis directions, and a comparison with EPSILON
\* that is decided on the square)
ISqrt(n) == CHOOSE k \in 0..n : k * k = n
RSqrt(p) ==
    IF p.e % 2 = 0 THEN StripNum(ISqrt(p.n), ISqrt(p.d), p.e \div 2)
    ELSE StripNum(ISqrt(2 * p.n), ISqrt(p.d), (p.e + 1) \div 2)
Vec2_magnitude(v) == RSqrt(Vec2_dot(v, v))
\* magnitude() < Number.EPSILON, decided on the square: dot < 2^-104 (which
\* needs both components below EPSILON, so the square is taken only then)
Vec2_magnitudeBelowEpsilon(v) ==
    /\ BelowEpsilon(RAbs(v.x))
    /\ BelowEpsilon(RAbs(v.y))
    /\ BelowPower(Vec2_dot(v, v), 2 * EpsilonExponent)
\* normalized() throws "Cannot normalize zero vector" exactly when this holds
Vec2_normalized_throws(v) == Vec2_magnitudeBelowEpsilon(v)
Vec2_normalized(v) == Vec2_scale(v, RDiv(Num(1), Vec2_magnitude(v)))

\* ---------------------------------------------------- Array.prototype.sort
\* sort() without a comparator orders the elements by their string
\* conversions, compared code unit by code unit.
MaxFractionDigits == 16

RECURSIVE IntegerDigits(_)
IntegerDigits(i) ==
    IF i < 10 THEN <<48 + i>> ELSE Append(IntegerDigits(i \div 10), 48 + (i % 10))

RECURSIVE FractionDigits(_, _, _)
FractionDigits(rem, d, k) ==
    IF rem = 0 \/ k = 0 THEN <<>>
    ELSE <<48 + ((rem * 10) \div d)>> \o FractionDigits((rem * 10) % d, d, k - 1)

\* Number::toString as code units: "-" is 45, "." is 46, "0".."9" are 48..57
NumberToString(p) ==
    LET m    == Abs(p.n)
        den  == p.d * (2 ^ p.e)
        sign == IF p.n < 0 THEN <<45>> ELSE <<>>
        frac == FractionDigits(m % den, den, MaxFractionDigits)
    IN  sign \o IntegerDigits(m \div den) \o (IF frac = <<>> THEN <<>> ELSE <<46>> \o frac)

RECURSIVE StringLess(_, _)
StringLess(s, t) ==
    IF t = <<>> THEN FALSE
    ELSE IF s = <<>> THEN TRUE
    ELSE IF Head(s) # Head(t) THEN Head(s) < Head(t)
    ELSE StringLess(Tail(s), Tail(t))

RECURSIVE SortInsert(_, _)
SortInsert(sorted, p) ==
    IF sorted = <<>> THEN <<p>>
    ELSE IF StringLess(NumberToString(p), NumberToString(Head(sorted)))
         THEN <<p>> \o sorted
         ELSE <<Head(sorted)>> \o SortInsert(Tail(sorted), p)

RECURSIVE Array_sort(_)
Array_sort(arr) ==
    IF arr = <<>> THEN <<>>
    ELSE SortInsert(Array_sort(SubSeq(arr, 1, Len(arr) - 1)), arr[Len(arr)])

\* ---------------------------------------------------------------- Rectangle
\* the constructor without the sorting of the corners
Rectangle_unsorted(x1, y1, x2, y2) == [minX |-> x1, minY |-> y1, maxX |-> x2, maxY |-> y2]
Rectangle(x1, y1, x2, y2) ==
    [minX |-> RMin(x1, x2), minY |-> RMin(y1, y2),
     maxX |-> RMax(x1, x2), maxY |-> RMax(y1, y2)]
Rectangle_expand(r, delta) ==
    Rectangle(RSub(r.minX, delta), RSub(r.minY, delta),
              RAdd(r.maxX, delta), RAdd(r.maxY, delta))
Rectangle_shrink(r, delta) == Rectangle_expand(r, RNeg(delta))
\* a Polygon is its vertex sequence
Rectangle_toPolygon(r) ==
    <<Vec2(r.minX, r.minY), Vec2(r.maxX, r.minY), Vec2(r.maxX, r.maxY), Vec2(r.minX, r.maxY)>>
\* clip that only applies the upper bounds
Rectangle_clip_upperOnly(r, point) == Vec2(RMin(point.x, r.maxX), RMin(point.y, r.maxY))
Rectangle_clip(r, point) ==
    Vec2(RMax(r.minX, RMin(point.x, r.maxX)), RMax(r.minY, RMin(point.y, r.maxY)))

\* --------------------------------------------------------- Line and Polygon
Line(origin, direction) == [origin |-> origin, direction |-> Vec2_normalized(direction)]

Polygon_transform(vertices, transform) ==
    [i \in 1..Len(vertices) |-> AffineTransform_apply(transform, vertices[i])]

\* the loop of Polygon.intersectLine from edge i (0-based) on: the scalars
\* pushed so far, or threw when Matrix2.inverse raised on a small nonzero
\* determinant
\* the loop with the closed acceptance 0 <= t <= 1
RECURSIVE Polygon_intersectLoop_closed(_, _, _, _)
Polygon_intersectLoop_closed(vertices, line, i, scalar_array) ==
    IF i >= Len(vertices) THEN [threw |-> FALSE, scalars |-> scalar_array]
    ELSE
      LET start == vertices[(i % Len(vertices)) + 1]
          end == vertices[((i + 1) % Len(vertices)) + 1]
          Push(scalars) ==
              IF RLt(scalars.y, Num(0)) \/ RLt(Num(1), scalars.y)
                THEN Polygon_intersectLoop_closed(vertices, line, i + 1, scalar_array)
              ELSE Polygon_intersectLoop_closed(vertices, line, i + 1,
                                                Append(scalar_array, scalars.x))
          Edge(basis_change_matrix) ==
              IF Matrix2_determinant(basis_change_matrix) = Num(0)
                THEN Polygon_intersectLoop_closed(vertices, line, i + 1, scalar_array)
              ELSE IF Matrix2_inverse_throws(basis_change_matrix)
                THEN [threw |-> TRUE, scalars |-> scalar_array]
              ELSE Push(Matrix2_apply(Matrix2_inverse(basis_change_matrix),
                                      Vec2_subtract(start, line.origin)))
      IN  Edge(Matrix2_fromColumns(line.direction,
                                   Vec2_negative(Vec2_subtract(end, start))))

RECURSIVE Polygon_intersectLoop(_, _, _, _)
Polygon_intersectLoop(vertices, line, i, scalar_array) ==
    IF i >= Len(vertices) THEN [threw |-> FALSE, scalars |-> scalar_array]
    ELSE
      LET start == vertices[(i % Len(vertices)) + 1]
          end == vertices[((i + 1) % Len(vertices)) + 1]
          Push(scalars) ==
              IF RLt(scalars.y, Num(0)) \/ RLe(Num(1), scalars.y)
                THEN Polygon_intersectLoop(vertices, line, i + 1, scalar_array)
              ELSE Polygon_intersectLoop(vertices, line, i + 1, Append(scalar_array, scalars.x))
          Edge(basis_change_matrix) ==
              IF Matrix2_determinant(basis_change_matrix) = Num(0)
                THEN Polygon_intersectLoop(vertices, line, i + 1, scalar_array)
              ELSE IF Matrix2_inverse_throws(basis_change_matrix)
                THEN [threw |-> TRUE, scalars |-> scalar_array]
              ELSE Push(Matrix2_apply(Matrix2_inverse(basis_change_matrix),
                                      Vec2_subtract(start, line.origin)))
      IN  Edge(Matrix2_fromColumns(line.direction,
                                   Vec2_negative(Vec2_subtract(end, start))))

\* Polygon.intersectLine: [threw, points]
Polygon_intersectLine(vertices, line) ==
    LET Points(sorted) ==
            [k \in 1..Len(sorted) |->
                Vec2_add(line.origin, Vec2_scale(line.direction, sorted[k]))]
        Result(loop) == [threw |-> loop.threw, points |-> Points(Array_sort(loop.scalars))]
    IN  Result(Polygon_intersectLoop(vertices, line, 0, <<>>))


\* ------------------------------------------------------------------- inputs
MaxWheel == 1       \* wheel events per behaviour
MaxPan == 1         \* panning pointer-moves per behaviour

MaxApi == 1         \* direct calls of applyZoom per behaviour

\* svg.getBoundingClientRect(): the page offset of the canvas (the default
\* body margin) and the canvas size; ShortRect is a canvas lower than twice
\* the margin Axes keeps
RectLeft == 8
RectTop == 8
Rect == [left |-> RectLeft, top |-> RectTop, width |-> 200, height |-> 100]
ShortRect == [left |-> RectLeft, top |-> RectTop, width |-> 200, height |-> 50]

\* the arguments of the direct calls of applyZoom
ApiMatrices ==
    { Matrix2(Num(0), Num(0), Num(0), Num(0)),
      Matrix2(Num(1), Num(2), Num(2), Num(4)),
      Matrix2(Num(1), Num(1), Num(0), Num(1)),
      Matrix2(Num(0), Num(-2), Num(2), Num(0)) }
ApiPoints == { Vec2(Num(1), Num(1)), Vec2(Num(-2), Rat(3, 2)) }

\* clientX, clientY of the pointer events
ClientPoints == { <<58, 18>>, <<108, 48>> }
\* deltaY of the wheel events
DeltaYs == { -100, 0, 100 }

\* an event record; transformation and fixedPoint are the arguments of a
\* direct call of applyZoom
NoEvent ==
    [type |-> "none", clientX |-> 0, clientY |-> 0, shiftKey |-> FALSE, deltaY |-> 0,
     transformation |-> Matrix2(Num(1), Num(0), Num(0), Num(1)), fixedPoint |-> Vec2_ZERO]
MouseEvent(type, c) == [NoEvent EXCEPT !.type = type, !.clientX = c[1], !.clientY = c[2]]
WheelEvent(c, shiftKey, deltaY) ==
    [NoEvent EXCEPT !.type = "wheel", !.clientX = c[1], !.clientY = c[2],
                    !.shiftKey = shiftKey, !.deltaY = deltaY]
ApplyZoomCall(transformation, fixedPoint) ==
    [NoEvent EXCEPT !.type = "applyZoom", !.transformation = transformation,
                    !.fixedPoint = fixedPoint]

\* -------------------------------------------------------------------- state
VARIABLES
    rect,       \* what svg.getBoundingClientRect() returns
    world,      \* the fields of the World instance
    svg,        \* the children of the SVG element, in document order
    lastEvent,  \* the event handled last
    outcome,    \* of the handler that ran last: did it throw, did it run draw()
    nWheel, nPan, nApi

vars == <<rect, world, svg, lastEvent, outcome, nWheel, nPan, nApi>>

\* Matrix2.rotation(angle) for the angle of the constructor, Math.PI/32.  Its
\* cosine and sine are irrational; the model takes the rational point
\* (4/5, 3/5) of the unit circle, so the matrix is an exact rotation.
RotationCos == Rat(4, 5)
RotationSin == Rat(3, 5)
Matrix2_rotation == Matrix2(RotationCos, RNeg(RotationSin), RotationSin, RotationCos)

\* ---------------------------------------------------------------- World
World_getMousePosition(r, event) ==
    Vec2(Num(event.clientX - r.left), Num(event.clientY - r.top))

World_worldToScreen(w, vector) == AffineTransform_apply(w.worldToScreenTransform, vector)
World_screenToWorld_throws(w) == AffineTransform_inverse_throws(w.worldToScreenTransform)
World_screenToWorld(w, vector) ==
    AffineTransform_apply(AffineTransform_inverse(w.worldToScreenTransform), vector)

World_getViewportRect(r, margin) ==
    Rectangle_shrink(Rectangle(Num(0), Num(0), Num(r.width), Num(r.height)), margin)
World_getViewportPolygon(r, margin) == Rectangle_toPolygon(World_getViewportRect(r, margin))
World_getVisibleWorldPolygon_throws(w) == AffineTransform_inverse_throws(w.worldToScreenTransform)
World_getVisibleWorldPolygon(w, r, margin) ==
    Polygon_transform(World_getViewportPolygon(r, margin),
                      AffineTransform_inverse(w.worldToScreenTransform))

\* applyZoom without the offset that keeps the fixed point in place
World_applyZoom_keepsTranslation(w, transformation, fixedPoint) ==
    [w EXCEPT !.worldToScreenTransform =
        AffineTransform(Matrix2_multiply(w.worldToScreenTransform.linear, transformation),
                        w.worldToScreenTransform.translation)]

World_applyZoom(w, transformation, fixedPoint) ==
    LET currentMatrix == w.worldToScreenTransform.linear
        currentVector == w.worldToScreenTransform.translation
        fixedScreen == Vec2_add(Matrix2_apply(currentMatrix, fixedPoint), currentVector)
        Update(newMatrix) ==
            LET newFixedScreen == Vec2_add(Matrix2_apply(newMatrix, fixedPoint), currentVector)
                offset == Vec2_subtract(fixedScreen, newFixedScreen)
            IN  [w EXCEPT !.worldToScreenTransform =
                    AffineTransform(newMatrix, Vec2_add(currentVector, offset))]
    IN  Update(Matrix2_multiply(currentMatrix, transformation))

\* ---------------------------------------------------------------- shapes
\* Axes.margin of the visible polygon, and of the rectangle the origin is
\* clipped to (30.1)
AxesMargin == Num(30)
AxesClipMargin == Rat(301, 10)

\* Axes.Axis followed by Axes.createArrow: does it throw
Axes_Axis_throws(w, origin, direction, area) ==
    LET Arrow(intersections) ==
            \/ intersections.threw
            \* worldToScreen(undefined)
            \/ Len(intersections.points) < 2
            \* createArrow: end.subtract(start).normalized()
            \/ Vec2_normalized_throws(
                  Vec2_subtract(World_worldToScreen(w, intersections.points[2]),
                                World_worldToScreen(w, intersections.points[1])))
    IN  Arrow(Polygon_intersectLine(area, Line(origin, direction)))

Axes_draw_throws(w, r) ==
    \/ World_getVisibleWorldPolygon_throws(w)
    \/ LET screen_polygon == World_getVisibleWorldPolygon(w, r, AxesMargin)
           origin == World_screenToWorld(w,
                        Rectangle_clip(World_getViewportRect(r, AxesClipMargin),
                                       World_worldToScreen(w, Vec2_ZERO)))
           \* the x axis, then the y axis
           Both(o, area) ==
               \E direction \in {Vec2_EX, Vec2_EY} : Axes_Axis_throws(w, o, direction, area)
       IN  Both(origin, screen_polygon)

\* InfiniteGrid.draw and FunctionGraph.draw throw when getVisibleWorldBounds does
InfiniteGrid_draw_throws(w, r) == World_getVisibleWorldPolygon_throws(w)
FunctionGraph_draw_throws(w, r) == World_getVisibleWorldPolygon_throws(w)

Shape_draw_throws(shape, w, r) ==
    CASE shape.kind = "grid"  -> InfiniteGrid_draw_throws(w, r)
      [] shape.kind = "axes"  -> Axes_draw_throws(w, r)
      [] shape.kind = "graph" -> FunctionGraph_draw_throws(w, r)

\* the element a shape's draw() returns: its id and what it was computed from
Element(shape, w) == [id |-> shape.id, transform |-> w.worldToScreenTransform]

RemoveById(children, id) == SelectSeq(children, LAMBDA el : el.id # id)

\* Shape.update: [svg, threw]
Shape_update(shape, w, r, children) ==
    LET removed == RemoveById(children, shape.id)
    IN  IF shape.hidden THEN [svg |-> removed, threw |-> FALSE]
        ELSE IF Shape_draw_throws(shape, w, r) THEN [svg |-> removed, threw |-> TRUE]
        ELSE [svg |-> Append(removed, Element(shape, w)), threw |-> FALSE]

\* the for loop of World.draw from shape i on: an exception leaves the loop
RECURSIVE World_drawLoop(_, _, _, _)
World_drawLoop(w, r, i, children) ==
    IF i > Len(w.shapes) THEN [svg |-> children, threw |-> FALSE]
    ELSE LET Updated(u) == IF u.threw THEN u ELSE World_drawLoop(w, r, i + 1, u.svg)
         IN  Updated(Shape_update(w.shapes[i], w, r, children))

\* World.draw: clears the SVG element, then updates every shape
World_draw(w, r) == World_drawLoop(w, r, 1, <<>>)


\* Shape constructor that numbers the shape by the length of world.shapes
Shape_constructor_idFromLength(st, kind, r) ==
    LET shape == [id |-> Len(st.world.shapes), kind |-> kind, hidden |-> FALSE]
        w == [st.world EXCEPT !.id = @ + 1, !.shapes = Append(@, shape)]
        Updated(u) == [world |-> w, svg |-> u.svg, threw |-> u.threw]
    IN  Updated(Shape_update(shape, w, r, st.svg))

\* Shape constructor (after the DOM plumbing): takes the next id, joins
\* world.shapes and renders itself once
Shape_constructor(st, kind, r) ==
    LET shape == [id |-> st.world.id, kind |-> kind, hidden |-> FALSE]
        w == [st.world EXCEPT !.id = @ + 1, !.shapes = Append(@, shape)]
        Updated(u) == [world |-> w, svg |-> u.svg, threw |-> u.threw]
    IN  Updated(Shape_update(shape, w, r, st.svg))

\* new World(svgElement, [])
World_constructor(r) ==
    LET viewportSize == Vec2(Num(r.width), Num(r.height))
    IN  [id |-> 0,
         viewportSize |-> viewportSize,
         zoomFactorMatrix |-> Matrix2(Rat(13, 10), Num(0), Num(0), Rat(13, 10)),
         rotationFactorMatrix |-> Matrix2_rotation,
         shapes |-> <<>>,
         isDragging |-> FALSE,
         currentMousePosition |-> Vec2(Num(0), Num(0)),
         lastMousePosition |-> Vec2(Num(0), Num(0)),
         worldToScreenTransform |->
            AffineTransform(Matrix2(Num(50), Num(0), Num(0), Num(-50)),
                            Vec2_scale(viewportSize, Rat(1, 2)))]

\* the page's ready handler: a world, the three default shapes, a first draw
Main(r) ==
    LET s0 == [world |-> World_constructor(r), svg |-> <<>>, threw |-> FALSE]
        Drawn(w, d) == [world |-> w, svg |-> d.svg, threw |-> d.threw]
        Draw(s3) == Drawn(s3.world, World_draw(s3.world, r))
    IN  Draw(Shape_constructor(Shape_constructor(Shape_constructor(s0, "grid", r),
                                                 "axes", r),
                               "graph", r))

\* ----------------------------------------------------------- event handlers
\* each handler maps the world and the SVG children to the world and children
\* it leaves, with threw (an exception left the handler) and drew (draw() ran)
Handled(w, children, threw, drew) ==
    [world |-> w, svg |-> children, threw |-> threw, drew |-> drew]

\* this.draw() at the end of a handler that has left the world w1
World_thenDraw(w1, r) ==
    LET Drawn(d) == Handled(w1, d.svg, d.threw, TRUE)
    IN  Drawn(World_draw(w1, r))

\* handleMouseDown that forgets to record the pointer position
World_handleMouseDown_noRecord(w, children, r, event) ==
    Handled([w EXCEPT !.isDragging = TRUE], children, FALSE, FALSE)

World_handleMouseDown(w, children, r, event) ==
    Handled([w EXCEPT !.isDragging = TRUE,
                      !.lastMousePosition = World_getMousePosition(r, event)],
            children, FALSE, FALSE)

\* handleMouseUp that leaves the drag flag alone
World_handleMouseUp_keepsDragging(w, children) == Handled(w, children, FALSE, FALSE)

World_handleMouseUp(w, children) ==
    Handled([w EXCEPT !.isDragging = FALSE], children, FALSE, FALSE)

\* handleMouseMove that records the pointer position before it tests isDragging
World_handleMouseMove_recordsFirst(w, children, r, event) ==
    IF ~w.isDragging
      THEN Handled([w EXCEPT !.currentMousePosition = World_getMousePosition(r, event)],
                   children, FALSE, FALSE)
    ELSE
      LET Pan(currentMousePosition) ==
            [w EXCEPT
               !.currentMousePosition = currentMousePosition,
               !.worldToScreenTransform =
                   AffineTransform(w.worldToScreenTransform.linear,
                                   Vec2_add(w.worldToScreenTransform.translation,
                                            Vec2_subtract(currentMousePosition, w.lastMousePosition))),
               !.lastMousePosition = currentMousePosition]
      IN  World_thenDraw(Pan(World_getMousePosition(r, event)), r)

\* handleMouseMove that does not advance lastMousePosition
World_handleMouseMove_staleLast(w, children, r, event) ==
    IF ~w.isDragging THEN Handled(w, children, FALSE, FALSE)
    ELSE
      LET Pan(currentMousePosition) ==
            [w EXCEPT
               !.currentMousePosition = currentMousePosition,
               !.worldToScreenTransform =
                   AffineTransform(w.worldToScreenTransform.linear,
                                   Vec2_add(w.worldToScreenTransform.translation,
                                            Vec2_subtract(currentMousePosition, w.lastMousePosition)))]
      IN  World_thenDraw(Pan(World_getMousePosition(r, event)), r)

\* handleMouseMove that pans against the drag
World_handleMouseMove_reversed(w, children, r, event) ==
    IF ~w.isDragging THEN Handled(w, children, FALSE, FALSE)
    ELSE
      LET Pan(currentMousePosition) ==
            [w EXCEPT
               !.currentMousePosition = currentMousePosition,
               !.worldToScreenTransform =
                   AffineTransform(w.worldToScreenTransform.linear,
                                   Vec2_add(w.worldToScreenTransform.translation,
                                            Vec2_subtract(w.lastMousePosition, currentMousePosition))),
               !.lastMousePosition = currentMousePosition]
      IN  World_thenDraw(Pan(World_getMousePosition(r, event)), r)

World_handleMouseMove(w, children, r, event) ==
    IF ~w.isDragging THEN Handled(w, children, FALSE, FALSE)
    ELSE
      LET Pan(currentMousePosition) ==
            [w EXCEPT
               !.currentMousePosition = currentMousePosition,
               !.worldToScreenTransform =
                   AffineTransform(w.worldToScreenTransform.linear,
                                   Vec2_add(w.worldToScreenTransform.translation,
                                            Vec2_subtract(currentMousePosition, w.lastMousePosition))),
               !.lastMousePosition = currentMousePosition]
      IN  World_thenDraw(Pan(World_getMousePosition(r, event)), r)

\* handleMouseScroll that ignores the wheel during a drag
World_handleMouseScroll_idleOnly(w, children, r, event) ==
    LET isRotation == event.shiftKey
        transformation == IF isRotation THEN w.rotationFactorMatrix ELSE w.zoomFactorMatrix
        zoomDirection == event.deltaY
        Zoom(zoomCenter) ==
            IF w.isDragging THEN w ELSE
            IF zoomDirection < 0
              THEN World_applyZoom(w, transformation, zoomCenter)
            ELSE IF zoomDirection > 0 /\ ~Matrix2_inverse_throws(transformation)
              THEN World_applyZoom(w, Matrix2_inverse(transformation), zoomCenter)
            ELSE w
    IN  IF World_screenToWorld_throws(w)
          THEN Handled(w, children, TRUE, FALSE)
          ELSE World_thenDraw(Zoom(World_screenToWorld(w, World_getMousePosition(r, event))), r)

\* handleMouseScroll with the two scroll directions exchanged
World_handleMouseScroll_swapped(w, children, r, event) ==
    LET isRotation == event.shiftKey
        transformation == IF isRotation THEN w.rotationFactorMatrix ELSE w.zoomFactorMatrix
        zoomDirection == event.deltaY
        Zoom(zoomCenter) ==
            IF zoomDirection > 0
              THEN World_applyZoom(w, transformation, zoomCenter)
            ELSE IF zoomDirection < 0 /\ ~Matrix2_inverse_throws(transformation)
              THEN World_applyZoom(w, Matrix2_inverse(transformation), zoomCenter)
            ELSE w
    IN  IF World_screenToWorld_throws(w)
          THEN Handled(w, children, TRUE, FALSE)
          ELSE World_thenDraw(Zoom(World_screenToWorld(w, World_getMousePosition(r, event))), r)

\* handleMouseScroll that zooms out with the matrix it zooms in with
World_handleMouseScroll_noInverse(w, children, r, event) ==
    LET isRotation == event.shiftKey
        transformation == IF isRotation THEN w.rotationFactorMatrix ELSE w.zoomFactorMatrix
        zoomDirection == event.deltaY
        Zoom(zoomCenter) ==
            IF zoomDirection # 0
              THEN World_applyZoom(w, transformation, zoomCenter)
            ELSE w
    IN  IF World_screenToWorld_throws(w)
          THEN Handled(w, children, TRUE, FALSE)
          ELSE World_thenDraw(Zoom(World_screenToWorld(w, World_getMousePosition(r, event))), r)

\* handleMouseScroll that zooms about the centre of the canvas
World_handleMouseScroll_aboutCentre(w, children, r, event) ==
    LET isRotation == event.shiftKey
        transformation == IF isRotation THEN w.rotationFactorMatrix ELSE w.zoomFactorMatrix
        zoomDirection == event.deltaY
        Zoom(zoomCenter) ==
            IF zoomDirection < 0
              THEN World_applyZoom(w, transformation, zoomCenter)
            ELSE IF zoomDirection > 0 /\ ~Matrix2_inverse_throws(transformation)
              THEN World_applyZoom(w, Matrix2_inverse(transformation), zoomCenter)
            ELSE w
    IN  IF World_screenToWorld_throws(w)
          THEN Handled(w, children, TRUE, FALSE)
          ELSE World_thenDraw(Zoom(World_screenToWorld(w, Vec2_scale(w.viewportSize, Rat(1, 2)))), r)

World_handleMouseScroll(w, children, r, event) ==
    LET isRotation == event.shiftKey
        transformation == IF isRotation THEN w.rotationFactorMatrix ELSE w.zoomFactorMatrix
        zoomDirection == event.deltaY
        Zoom(zoomCenter) ==
            IF zoomDirection < 0
              THEN World_applyZoom(w, transformation, zoomCenter)
            ELSE IF zoomDirection > 0 /\ ~Matrix2_inverse_throws(transformation)
              THEN World_applyZoom(w, Matrix2_inverse(transformation), zoomCenter)
            ELSE w
    IN  IF World_screenToWorld_throws(w)
          THEN Handled(w, children, TRUE, FALSE)
          ELSE World_thenDraw(Zoom(World_screenToWorld(w, World_getMousePosition(r, event))), r)

\* ------------------------------------------------------------------ actions
Start(r) ==
    /\ rect = r
    /\ \E page \in {Main(r)} :
          /\ world = page.world
          /\ svg = page.svg
          /\ outcome = [threw |-> page.threw, drew |-> TRUE]
    /\ lastEvent = NoEvent
    /\ nWheel = 0 /\ nPan = 0 /\ nApi = 0

Deliver(event, h) ==
    /\ world' = h.world
    /\ svg' = h.svg
    /\ outcome' = [threw |-> h.threw, drew |-> h.drew]
    /\ lastEvent' = event
    /\ rect' = rect

MouseDown ==
    \E c \in ClientPoints :
        /\ \E h \in {World_handleMouseDown(world, svg, rect, MouseEvent("mousedown", c))} :
              Deliver(MouseEvent("mousedown", c), h)
        /\ UNCHANGED <<nWheel, nPan, nApi>>

MouseUp ==
    \E type \in {"mouseup", "mouseleave"} :
        /\ \E h \in {World_handleMouseUp(world, svg)} : Deliver(MouseEvent(type, <<0, 0>>), h)
        /\ UNCHANGED <<nWheel, nPan, nApi>>

MouseMove ==
    \E c \in ClientPoints :
        /\ world.isDragging => nPan < MaxPan
        /\ \E h \in {World_handleMouseMove(world, svg, rect, MouseEvent("mousemove", c))} :
              Deliver(MouseEvent("mousemove", c), h)
        /\ nPan' = IF world.isDragging THEN nPan + 1 ELSE nPan
        /\ UNCHANGED <<nWheel, nApi>>

Wheel ==
    \E c \in ClientPoints, shiftKey \in BOOLEAN, deltaY \in DeltaYs :
        /\ nWheel < MaxWheel
        /\ \E h \in {World_handleMouseScroll(world, svg, rect, WheelEvent(c, shiftKey, deltaY))} :
              Deliver(WheelEvent(c, shiftKey, deltaY), h)
        /\ nWheel' = nWheel + 1
        /\ UNCHANGED <<nPan, nApi>>

\* a direct call of world.applyZoom (it does not redraw)
ApplyZoom ==
    \E transformation \in ApiMatrices, fixedPoint \in ApiPoints :
        /\ nApi < MaxApi
        /\ \E h \in {Handled(World_applyZoom(world, transformation, fixedPoint), svg, FALSE, FALSE)} :
              Deliver(ApplyZoomCall(transformation, fixedPoint), h)
        /\ nApi' = nApi + 1
        /\ UNCHANGED <<nWheel, nPan>>

Init == Start(Rect)
InitShort == Start(ShortRect)

Next == MouseDown \/ MouseUp \/ MouseMove \/ Wheel
NextApi == ApplyZoom \/ Wheel

\* the page as main.js wires it: pointer and wheel events
Spec == Init /\ [][Next]_vars
\* the same page on the short canvas
SpecShort == InitShort /\ [][Next]_vars
\* the controller with applyZoom called by a collaborator
SpecApi == Init /\ [][NextApi]_vars

\* ------------------------------------------------------------------- claims
Transform == world.worldToScreenTransform
\* the pointer position of an event, relative to the canvas
PointerOf(event) == Vec2(Num(event.clientX - rect.left), Num(event.clientY - rect.top))
InitialLinear == Matrix2(Num(50), Num(0), Num(0), Num(-50))
Invertible(m) == Matrix2_determinant(m) # Num(0)

\* C1: from a viewport whose transform is invertible, applyZoom(transformation,
\* fixedPoint) leaves linear' = linear . transformation, and fixedPoint maps to
\* the same screen point after the call as before it.
C1_ZoomKeepsFixedPoint ==
    [][(lastEvent'.type = "applyZoom" /\ Invertible(Transform.linear)) =>
          /\ Transform'.linear = Matrix2_multiply(Transform.linear, lastEvent'.transformation)
          /\ AffineTransform_apply(Transform', lastEvent'.fixedPoint)
                = AffineTransform_apply(Transform, lastEvent'.fixedPoint)]_vars

\* an applyZoom call with an invertible matrix has acted on a view that a
\* wheel event had zoomed or rotated before
C1_Witness ==
    /\ lastEvent.type = "applyZoom"
    /\ Invertible(lastEvent.transformation)
    /\ Invertible(Transform.linear)
    /\ nWheel > 0
    /\ Transform.linear # Matrix2_multiply(InitialLinear, lastEvent.transformation)

\* C2: a zoom/rotate update whose matrix cannot be inverted is rejected and
\* leaves worldToScreenTransform as it was, in the wheel handler and in
\* applyZoom called directly.
C2_SingularUpdateRejected ==
    [][(\/ /\ lastEvent'.type = "applyZoom"
           /\ Matrix2_inverse_throws(lastEvent'.transformation)
        \/ /\ lastEvent'.type = "wheel"
           /\ Matrix2_inverse_throws(IF lastEvent'.shiftKey
                                       THEN world.rotationFactorMatrix
                                       ELSE world.zoomFactorMatrix))
          => Transform' = Transform]_vars

\* C3: a pointer-down leaves the controller Dragging with the event's pointer
\* position as lastMousePosition, from any state, and does not change the
\* transform.
C3_PointerDown ==
    [][lastEvent'.type = "mousedown" =>
          /\ world'.isDragging = TRUE
          /\ world'.lastMousePosition = PointerOf(lastEvent')
          /\ Transform' = Transform]_vars

\* a pointer-down has been handled after an earlier drag had panned the view
C3_Witness ==
    /\ lastEvent.type = "mousedown"
    /\ world.isDragging
    /\ world.lastMousePosition = PointerOf(lastEvent)
    /\ nPan > 0

\* C4: a pointer-up or pointer-leave leaves the controller Idle from any state
\* and does not change the transform; while Idle a pointer-move does not pan,
\* and only a pointer-down ends Idle.
C4_PointerUp ==
    [][/\ lastEvent'.type \in {"mouseup", "mouseleave"} =>
            (world'.isDragging = FALSE /\ Transform' = Transform)
       /\ (~world.isDragging /\ lastEvent'.type = "mousemove") => Transform' = Transform
       /\ (~world.isDragging /\ world'.isDragging) => lastEvent'.type = "mousedown"]_vars

\* a pointer-move has been handled while Idle, after a drag that panned
C4_Witness ==
    /\ lastEvent.type = "mousemove"
    /\ ~world.isDragging
    /\ nPan > 0

\* C5: a pointer-move to p while Dragging adds p - lastMousePosition to the
\* translation, keeps the linear part, sets lastMousePosition to p and stays
\* Dragging.
C5_DragPans ==
    [][(lastEvent'.type = "mousemove" /\ world.isDragging) =>
          /\ Transform'.translation =
                Vec2_add(Transform.translation,
                         Vec2_subtract(PointerOf(lastEvent'), world.lastMousePosition))
          /\ Transform'.linear = Transform.linear
          /\ world'.lastMousePosition = PointerOf(lastEvent')
          /\ world'.isDragging = TRUE]_vars

\* a drag has moved the translation away from the centre of the canvas
C5_Witness ==
    /\ lastEvent.type = "mousemove"
    /\ world.isDragging
    /\ world.lastMousePosition = PointerOf(lastEvent)
    /\ Transform.translation # Vec2_scale(world.viewportSize, Rat(1, 2))
    /\ nWheel = 0

\* the screen points the pan invariant is evaluated at
QueryPoints == { Vec2(Num(0), Num(0)), Vec2(Num(100), Num(50)), Vec2(Rat(75, 2), Num(-20)) }

\* C6: after a pan by delta, screenToWorld(q + delta) is what screenToWorld(q)
\* was before the pan, for every screen point q.
C6_PanInvariant ==
    [][(lastEvent'.type = "mousemove" /\ world.isDragging /\ Invertible(Transform.linear)) =>
          \A q \in QueryPoints :
             World_screenToWorld(world',
                 Vec2_add(q, Vec2_subtract(PointerOf(lastEvent'), world.lastMousePosition)))
               = World_screenToWorld(world, q)]_vars

\* a drag has panned a view that a wheel event had zoomed or rotated
C6_Witness ==
    /\ lastEvent.type = "mousemove"
    /\ world.isDragging
    /\ nPan > 0
    /\ nWheel > 0
    /\ Transform.linear # InitialLinear

\* C7: a wheel event changes neither isDragging nor lastMousePosition, and the
\* transform it leaves is the one it would have left from the other drag state.
C7_WheelIgnoresDragState ==
    [][lastEvent'.type = "wheel" =>
          /\ world'.isDragging = world.isDragging
          /\ world'.lastMousePosition = world.lastMousePosition
          /\ Transform' =
                World_handleMouseScroll([world EXCEPT !.isDragging = ~@], svg, rect, lastEvent')
                    .world.worldToScreenTransform]_vars

\* a wheel event has changed the transform during a drag
C7_Witness ==
    /\ lastEvent.type = "wheel"
    /\ lastEvent.deltaY # 0
    /\ world.isDragging
    /\ Transform.linear # InitialLinear

IsRotationMatrix(m) ==
    m.a = m.d /\ m.b = RNeg(m.c) /\ Matrix2_determinant(m) = Num(1) /\ m.c # Num(0)
IsIsotropicZoom(m) ==
    m.a = m.d /\ m.b = Num(0) /\ m.c = Num(0) /\ RLt(Num(1), m.a)

\* C8: on a wheel event the increment M is the rotation matrix with shift held
\* and the isotropic zoom matrix otherwise; deltaY < 0 gives linear' = linear.M,
\* deltaY > 0 gives linear' = linear.M^-1, deltaY = 0 leaves the transform; the
\* world point under the pointer stays under the pointer.
C8_WheelIncrement ==
    [][(lastEvent'.type = "wheel" /\ Invertible(Transform.linear)) =>
          LET M == IF lastEvent'.shiftKey
                     THEN world.rotationFactorMatrix ELSE world.zoomFactorMatrix
              p == PointerOf(lastEvent')
          IN  /\ IsRotationMatrix(world.rotationFactorMatrix)
              /\ IsIsotropicZoom(world.zoomFactorMatrix)
              /\ lastEvent'.deltaY < 0 => Transform'.linear = Matrix2_multiply(Transform.linear, M)
              /\ lastEvent'.deltaY > 0 => Matrix2_multiply(Transform'.linear, M) = Transform.linear
              /\ lastEvent'.deltaY = 0 => Transform' = Transform
              /\ AffineTransform_apply(Transform', World_screenToWorld(world, p)) = p]_vars

\* a shift-wheel event with deltaY > 0 has rotated the view back by one step
C8_Witness ==
    /\ lastEvent.type = "wheel"
    /\ lastEvent.shiftKey
    /\ lastEvent.deltaY > 0
    /\ Matrix2_multiply(Transform.linear, world.rotationFactorMatrix) = InitialLinear

Rendered(id) == \E k \in 1..Len(svg) : svg[k].id = id

\* C9: when a shape fails to draw during World.draw only that shape is lost:
\* after a render pass every shape that is not hidden and whose own draw() does
\* not fail has its element among the SVG children.
C9_FailureLosesOneShape ==
    outcome.drew =>
        \A i \in 1..Len(world.shapes) :
            (~world.shapes[i].hidden /\ ~Shape_draw_throws(world.shapes[i], world, rect))
                => Rendered(world.shapes[i].id)

\* the elements of all shapes that are not hidden, drawn from transform t
FullRender(t) ==
    LET visible == SelectSeq(world.shapes, LAMBDA sh : ~sh.hidden)
    IN  [k \in 1..Len(visible) |-> [id |-> visible[k].id, transform |-> t]]

\* C10: every event that changes the transform runs World.draw in its handler,
\* and the draw leaves no child of an earlier pass and has every shape rendered
\* from the current transform.
C10_NoStaleRender ==
    [][Transform' # Transform => (outcome'.drew /\ svg' = FullRender(Transform)')]_vars

\* ------------------------------------------------- calls of the pure kernel
\* A call of a function of the kernel on the loaded page: lastEvent is the
\* call with its arguments, outcome what it returned once it has returned.
Pending == [pending |-> TRUE]

InitCall(calls) ==
    /\ rect = Rect
    /\ \E page \in {Main(Rect)} : world = page.world /\ svg = page.svg
    /\ lastEvent \in calls
    /\ outcome = Pending
    /\ nWheel = 0 /\ nPan = 0 /\ nApi = 0

Return(type, returned) ==
    /\ lastEvent.type = type
    /\ outcome = Pending
    /\ outcome' = returned
    /\ UNCHANGED <<rect, world, svg, lastEvent, nWheel, nPan, nApi>>

Returned(type) == lastEvent.type = type /\ outcome # Pending

\* JS a % b on integers: the remainder takes the sign of the dividend
JsRem(a, b) == IF a < 0 THEN -((-a) % Abs(b)) ELSE a % Abs(b)

\* ---------------------------------------------------------- math-utils.js
RECURSIVE countTrailingZeros(_, _)
countTrailingZeros(n, m) ==
    IF m = 0 THEN 0
    ELSE IF JsRem(n, 10) = 0 THEN countTrailingZeros(n \div 10, m - 1) + 1
    ELSE 0

\* determineGridLineRank without the special rank of the origin
determineGridLineRank_noOrigin(n) ==
    IF n < 0 THEN countTrailingZeros(-n, 2) ELSE countTrailingZeros(n, 2)

determineGridLineRank(n) ==
    IF n < 0 THEN countTrailingZeros(-n, 2)
    ELSE IF n = 0 THEN 3
    ELSE countTrailingZeros(n, 2)

\* the second version of the two functions: the while loop from (count, current)
RECURSIVE part_001_countLoop(_, _, _)
part_001_countLoop(count, current, maxZeros) ==
    IF JsRem(current, 10) = 0 /\ count < maxZeros
      THEN part_001_countLoop(count + 1, current \div 10, maxZeros)
      ELSE count

part_001_countTrailingZeros(num, maxZeros) ==
    IF maxZeros <= 0 \/ num = 0 THEN 0
    ELSE part_001_countLoop(0, Abs(num), maxZeros)

part_001_determineGridLineRank(num) ==
    IF num = 0 THEN 3 ELSE part_001_countTrailingZeros(num, 2)

\* the grid coordinates the rank is asked for
MaxGridCoordinate == 1200

RankCalls ==
    [type : {"determineGridLineRank", "part_001.determineGridLineRank"},
     num : -MaxGridCoordinate..MaxGridCoordinate]

GridLineRank ==
    Return("determineGridLineRank",
           [value |-> determineGridLineRank(lastEvent.num),
            mirrored |-> determineGridLineRank(-lastEvent.num)])

GridLineRankPart001 ==
    Return("part_001.determineGridLineRank",
           [value |-> part_001_determineGridLineRank(lastEvent.num),
            mirrored |-> part_001_determineGridLineRank(-lastEvent.num)])

InitRank == InitCall(RankCalls)
NextRank == GridLineRank \/ GridLineRankPart001
SpecRank == InitRank /\ [][NextRank]_vars

\* the number of trailing base-10 zeros of a positive integer
TrailingZeros(k) == CHOOSE z \in 0..9 : k % (10 ^ z) = 0 /\ k % (10 ^ (z + 1)) # 0

\* C11: determineGridLineRank(0) = 3; for n # 0 it is the smaller of 2 and the
\* number of trailing base-10 zeros of |n|; so it lies in 0..3, is 3 only for
\* n = 0, and rank(-n) = rank(n).
C11_GridLineRank ==
    (Returned("determineGridLineRank") \/ Returned("part_001.determineGridLineRank")) =>
        /\ lastEvent.num = 0 => outcome.value = 3
        /\ lastEvent.num # 0 =>
              outcome.value = (IF TrailingZeros(Abs(lastEvent.num)) < 2
                                 THEN TrailingZeros(Abs(lastEvent.num)) ELSE 2)
        /\ outcome.value \in 0..3
        /\ outcome.value = 3 => lastEvent.num = 0
        /\ outcome.mirrored = outcome.value

\* the rank of a negative coordinate with three trailing zeros was returned
C11_Witness ==
    /\ Returned("determineGridLineRank")
    /\ lastEvent.num = -1000
    /\ outcome.value = 2

\* ------------------------------------------------- Path and LineSegment
\* the loop of Path.intersectLine: as for Polygon, without the closing edge
RECURSIVE Path_intersectLoop(_, _, _, _)
Path_intersectLoop(vertices, line, i, scalar_array) ==
    IF i >= Len(vertices) - 1 THEN [threw |-> FALSE, scalars |-> scalar_array]
    ELSE
      LET start == vertices[(i % Len(vertices)) + 1]
          end == vertices[((i + 1) % Len(vertices)) + 1]
          Push(scalars) ==
              IF RLt(scalars.y, Num(0)) \/ RLe(Num(1), scalars.y)
                THEN Path_intersectLoop(vertices, line, i + 1, scalar_array)
              ELSE Path_intersectLoop(vertices, line, i + 1, Append(scalar_array, scalars.x))
          Edge(basis_change_matrix) ==
              IF Matrix2_determinant(basis_change_matrix) = Num(0)
                THEN Path_intersectLoop(vertices, line, i + 1, scalar_array)
              ELSE IF Matrix2_inverse_throws(basis_change_matrix)
                THEN [threw |-> TRUE, scalars |-> scalar_array]
              ELSE Push(Matrix2_apply(Matrix2_inverse(basis_change_matrix),
                                      Vec2_subtract(start, line.origin)))
      IN  Edge(Matrix2_fromColumns(line.direction,
                                   Vec2_negative(Vec2_subtract(end, start))))

\* Path.intersectLine: [threw, points]
Path_intersectLine(vertices, line) ==
    LET Points(sorted) ==
            [k \in 1..Len(sorted) |->
                Vec2_add(line.origin, Vec2_scale(line.direction, sorted[k]))]
        Result(loop) == [threw |-> loop.threw, points |-> Points(Array_sort(loop.scalars))]
    IN  Result(Path_intersectLoop(vertices, line, 0, <<>>))

\* LineSegment.intersectLine: the catch block turns the exception of
\* Matrix2.inverse into the empty result
LineSegment_intersectLine(start, end, line) ==
    LET segmentVec == Vec2_subtract(end, start)
        Hit(t) == IF RLe(Num(0), t) /\ RLe(t, Num(1))
                    THEN <<Vec2_add(start, Vec2_scale(segmentVec, t))>>
                    ELSE <<>>
        Solve(matrix) ==
            IF Matrix2_inverse_throws(matrix) THEN <<>>
            ELSE Hit(Matrix2_apply(Matrix2_inverse(matrix),
                                   Vec2_subtract(line.origin, start)).x)
    IN  [threw |-> FALSE,
         points |-> Solve(Matrix2_fromColumns(segmentVec,
                                              Vec2_scale(line.direction, Num(-1))))]

\* --------------------------------------------- the calls of intersectLine
Point(x, y) == Vec2(Num(x), Num(y))

\* the 10 x 10 square as Rectangle.toPolygon gives it, a rectangle away from
\* the origin, and a triangle
IntersectVertices ==
    { Rectangle_toPolygon(Rectangle(Num(0), Num(0), Num(10), Num(10))),
      Rectangle_toPolygon(Rectangle(Num(-8), Num(-6), Num(-2), Num(-3))),
      <<Point(0, 0), Point(8, 0), Point(0, 6)>> }
IntersectOrigins ==
    { Point(5, 5), Point(-5, 5), Point(0, 0), Point(10, 0), Point(20, 5), Point(3, -4) }
\* directions whose magnitude is rational
IntersectDirections == { Point(1, 0), Point(0, 1), Point(-1, 0), Point(3, 4), Point(-4, 3) }

\* a quadrilateral whose first edge rises by 2^-53 over a run of 1: against a
\* horizontal line the determinant of its basis change is 2^-53, not zero
\* and below Number.EPSILON
NearParallelVertices ==
    <<Point(0, 0), Vec2(Num(1), RatScaled(1, 1, EpsilonExponent + 1)), Point(1, 1), Point(0, 1)>>

IntersectTypes == {"Polygon.intersectLine", "Path.intersectLine", "LineSegment.intersectLine"}

IntersectCalls ==
    [type : IntersectTypes,
     vertices : IntersectVertices,
     origin : IntersectOrigins,
     direction : IntersectDirections]
    \cup
    [type : IntersectTypes,
     vertices : {NearParallelVertices},
     origin : {Point(5, 5), Point(0, 0)},
     direction : {Point(1, 0), Point(-1, 0)}]

CallLine == Line(lastEvent.origin, lastEvent.direction)

PolygonIntersectLine ==
    Return("Polygon.intersectLine", Polygon_intersectLine(lastEvent.vertices, CallLine))

PathIntersectLine ==
    Return("Path.intersectLine", Path_intersectLine(lastEvent.vertices, CallLine))

\* the segment between the first two vertices
LineSegmentIntersectLine ==
    Return("LineSegment.intersectLine",
           LineSegment_intersectLine(lastEvent.vertices[1], lastEvent.vertices[2], CallLine))

InitIntersect == InitCall(IntersectCalls)
NextIntersect == PolygonIntersectLine \/ PathIntersectLine \/ LineSegmentIntersectLine
SpecIntersect == InitIntersect /\ [][NextIntersect]_vars

\* the position of a point along the line of the call: the s of origin + s.direction
Along(point) == Vec2_dot(Vec2_subtract(point, lastEvent.origin), CallLine.direction)

\* C12: the points intersectLine of a Polygon or a Path returns are in
\* ascending order of their position s along the line.
C12_IntersectionsAscending ==
    (Returned("Polygon.intersectLine") \/ Returned("Path.intersectLine")) =>
        \A k \in 1..(Len(outcome.points) - 1) :
            RLe(Along(outcome.points[k]), Along(outcome.points[k + 1]))

\* every polygon of IntersectVertices is convex
\* C13: Polygon.intersectLine of a convex polygon and a line returns exactly 0
\* or exactly 2 points, also when the line passes through a vertex, touches
\* the polygon at one corner or runs along an edge.
C13_ZeroOrTwoPoints ==
    (Returned("Polygon.intersectLine") /\ ~outcome.threw) =>
        Len(outcome.points) \in {0, 2}

\* C14: intersectLine of a Path, a Polygon or a LineSegment never raises the
\* exception of Matrix2.inverse: an edge parallel or nearly parallel to the
\* line contributes no point.
C14_ParallelNeverThrows ==
    (\E type \in IntersectTypes : Returned(type)) => ~outcome.threw

\* ------------------------------------------- the operations of Rectangle
\* Math.floor, Math.ceil
RFloor(p) == Num(p.n \div (p.d * (2 ^ p.e)))
RCeil(p) == Num(-((-p.n) \div (p.d * (2 ^ p.e))))

\* Math.min(...xs), Math.max(...xs) of a non-empty array
RECURSIVE Math_min(_)
Math_min(xs) == IF Len(xs) = 1 THEN xs[1] ELSE RMin(xs[1], Math_min(Tail(xs)))
RECURSIVE Math_max(_)
Math_max(xs) == IF Len(xs) = 1 THEN xs[1] ELSE RMax(xs[1], Math_max(Tail(xs)))

Rectangle_scale(r, factor) ==
    Rectangle(RMul(factor, r.minX), RMul(factor, r.minY),
              RMul(factor, r.maxX), RMul(factor, r.maxY))
Rectangle_expandedToIntegerBounds(r) ==
    Rectangle(RFloor(r.minX), RFloor(r.minY), RCeil(r.maxX), RCeil(r.maxY))
Rectangle_contractedToIntegerBounds(r) ==
    Rectangle(RCeil(r.minX), RCeil(r.minY), RFloor(r.maxX), RFloor(r.maxY))
Polygon_boundingRectangle(vertices) ==
    LET xs == [i \in 1..Len(vertices) |-> vertices[i].x]
        ys == [i \in 1..Len(vertices) |-> vertices[i].y]
    IN  Rectangle(Math_min(xs), Math_min(ys), Math_max(xs), Math_max(ys))

\* the corner coordinates, in either order; factors and deltas; points to clip
RectangleCoordinates == { Num(-3), Rat(1, 2), Num(4) }
RectangleArguments == { Num(-2), Num(0), Rat(3, 2), Num(5) }
ClipCoordinates == { Num(-5), Rat(1, 2), Num(7) }

RectangleCalls ==
    [type : {"Rectangle.scale", "Rectangle.expand", "Rectangle.shrink"},
     x1 : RectangleCoordinates, y1 : RectangleCoordinates,
     x2 : RectangleCoordinates, y2 : RectangleCoordinates,
     arg : RectangleArguments, point : {Vec2_ZERO}]
    \cup
    [type : {"Rectangle.expandedToIntegerBounds", "Rectangle.contractedToIntegerBounds",
             "Polygon.boundingRectangle"},
     x1 : RectangleCoordinates, y1 : RectangleCoordinates,
     x2 : RectangleCoordinates, y2 : RectangleCoordinates,
     arg : {Num(0)}, point : {Vec2_ZERO}]
    \cup
    [type : {"Rectangle.clip"},
     x1 : RectangleCoordinates, y1 : RectangleCoordinates,
     x2 : RectangleCoordinates, y2 : RectangleCoordinates,
     arg : {Num(0)}, point : [x : ClipCoordinates, y : ClipCoordinates]]

\* new Rectangle(x1, y1, x2, y2) of the call
CallRectangle == Rectangle(lastEvent.x1, lastEvent.y1, lastEvent.x2, lastEvent.y2)

RectangleScale == Return("Rectangle.scale", Rectangle_scale(CallRectangle, lastEvent.arg))
RectangleExpand == Return("Rectangle.expand", Rectangle_expand(CallRectangle, lastEvent.arg))
RectangleShrink == Return("Rectangle.shrink", Rectangle_shrink(CallRectangle, lastEvent.arg))
RectangleExpandedToIntegerBounds ==
    Return("Rectangle.expandedToIntegerBounds", Rectangle_expandedToIntegerBounds(CallRectangle))
RectangleContractedToIntegerBounds ==
    Return("Rectangle.contractedToIntegerBounds",
           Rectangle_contractedToIntegerBounds(CallRectangle))
\* the polygon of the two corners as given and a third point
PolygonBoundingRectangle ==
    Return("Polygon.boundingRectangle",
           Polygon_boundingRectangle(<<Vec2(lastEvent.x1, lastEvent.y1),
                                       Vec2(lastEvent.x2, lastEvent.y2),
                                       Vec2(lastEvent.y1, lastEvent.x2)>>))
RectangleClip == Return("Rectangle.clip", Rectangle_clip(CallRectangle, lastEvent.point))

InitRectangle == InitCall(RectangleCalls)
NextRectangle ==
    \/ RectangleScale
    \/ RectangleExpand
    \/ RectangleShrink
    \/ RectangleExpandedToIntegerBounds
    \/ RectangleContractedToIntegerBounds
    \/ PolygonBoundingRectangle
    \/ RectangleClip
SpecRectangle == InitRectangle /\ [][NextRectangle]_vars

Ordered(r) == RLe(r.minX, r.maxX) /\ RLe(r.minY, r.maxY)

\* C15: every Rectangle has minX <= maxX and minY <= maxY: the one the
\* constructor builds from two corners in any order, and the result of scale
\* (with any factor), expand, shrink, expandedToIntegerBounds,
\* contractedToIntegerBounds and boundingRectangle.
C15_RectangleOrdered ==
    /\ lastEvent.type # "none" => Ordered(CallRectangle)
    /\ (outcome # Pending /\ lastEvent.type \notin {"none", "Rectangle.clip"}) => Ordered(outcome)

\* scale by a negative factor has returned for a rectangle given by its
\* corners in descending order
C15_Witness ==
    /\ Returned("Rectangle.scale")
    /\ RLt(lastEvent.arg, Num(0))
    /\ RLt(lastEvent.x2, lastEvent.x1)
    /\ RLt(lastEvent.y2, lastEvent.y1)
    /\ outcome.minX = RMul(lastEvent.arg, lastEvent.x1)
    /\ RLt(outcome.minX, outcome.maxX)

Inside(r, point) ==
    /\ RLe(r.minX, point.x) /\ RLe(point.x, r.maxX)
    /\ RLe(r.minY, point.y) /\ RLe(point.y, r.maxY)

\* C16: r.clip(p) lies in [minX,maxX] x [minY,maxY], and r.clip(p) = p when p
\* lies in the rectangle, so that clipping twice is clipping once.
C16_ClipInside ==
    Returned("Rectangle.clip") =>
        /\ Inside(CallRectangle, outcome)
        /\ Inside(CallRectangle, lastEvent.point) => outcome = lastEvent.point
        /\ Rectangle_clip(CallRectangle, outcome) = outcome

\* clip has moved a point that lies left of the rectangle onto its left side
\* and kept its y, which was in range
C16_Witness ==
    /\ Returned("Rectangle.clip")
    /\ RLt(lastEvent.point.x, CallRectangle.minX)
    /\ outcome.x = CallRectangle.minX
    /\ outcome.y = lastEvent.point.y
    /\ RLt(CallRectangle.minX, CallRectangle.maxX)

\* ------------------------------------------- the laws of AffineTransform
\* compose that adds the two translations
AffineTransform_compose_added(t, other) ==
    AffineTransform(Matrix2_multiply(t.linear, other.linear),
                    Vec2_add(other.translation, t.translation))

AffineTransform_compose(t, other) ==
    AffineTransform(Matrix2_multiply(t.linear, other.linear),
                    Vec2_add(Matrix2_apply(t.linear, other.translation), t.translation))

\* the initial view, a zoomed view, a rotated and scaled view, a shear, a
\* quarter turn with scale, a non-uniform scale with a fraction, and two
\* matrices without an inverse
AffineLinears ==
    { Matrix2(Num(50), Num(0), Num(0), Num(-50)),
      Matrix2(Num(65), Num(0), Num(0), Num(-65)),
      Matrix2(Num(40), Num(-30), Num(-30), Num(-40)),
      Matrix2(Num(1), Num(1), Num(0), Num(1)),
      Matrix2(Num(0), Num(-2), Num(2), Num(0)),
      Matrix2(Rat(1, 2), Num(0), Num(0), Num(3)),
      Matrix2(Num(1), Num(2), Num(2), Num(4)),
      Matrix2(Num(0), Num(0), Num(0), Num(0)) }
AffineTranslations == { Vec2_ZERO, Point(100, 50), Vec2(Num(-3), Rat(1, 2)) }
AffineTransforms == [linear : AffineLinears, translation : AffineTranslations]
AffinePoints == { Vec2_ZERO, Point(1, 1), Vec2(Num(-2), Rat(3, 2)), Point(58, 18) }

\* the transforms that are composed three at a time
ComposeTransforms ==
    [linear : { Matrix2(Num(50), Num(0), Num(0), Num(-50)),
                Matrix2(Num(1), Num(1), Num(0), Num(1)),
                Matrix2(Rat(1, 2), Num(0), Num(0), Num(3)),
                Matrix2(Num(1), Num(2), Num(2), Num(4)) },
     translation : { Point(100, 50), Vec2(Num(-3), Rat(1, 2)) }]
ComposePoints == { Point(1, 1), Vec2(Num(-2), Rat(3, 2)) }

AffineCalls ==
    [type : {"AffineTransform.inverse", "World.screenToWorld"},
     A : AffineTransforms, B : {AffineTransform(Matrix2(Num(1), Num(0), Num(0), Num(1)), Vec2_ZERO)},
     C : {AffineTransform(Matrix2(Num(1), Num(0), Num(0), Num(1)), Vec2_ZERO)},
     v : AffinePoints]
    \cup
    [type : {"AffineTransform.compose"},
     A : ComposeTransforms, B : ComposeTransforms, C : ComposeTransforms,
     v : ComposePoints]

\* T.inverse().apply(T.apply(v)) and T.apply(T.inverse().apply(v))
AffineRoundTrip ==
    Return("AffineTransform.inverse",
           IF AffineTransform_inverse_throws(lastEvent.A) THEN [threw |-> TRUE]
           ELSE [threw |-> FALSE,
                 forward |-> AffineTransform_apply(AffineTransform_inverse(lastEvent.A),
                                                   AffineTransform_apply(lastEvent.A, lastEvent.v)),
                 backward |-> AffineTransform_apply(lastEvent.A,
                                  AffineTransform_apply(AffineTransform_inverse(lastEvent.A),
                                                        lastEvent.v))])

\* the world of the page with the view A
CallWorld == [world EXCEPT !.worldToScreenTransform = lastEvent.A]

\* screenToWorld(worldToScreen(v)) and worldToScreen(screenToWorld(v))
WorldRoundTrip ==
    Return("World.screenToWorld",
           IF World_screenToWorld_throws(CallWorld) THEN [threw |-> TRUE]
           ELSE [threw |-> FALSE,
                 forward |-> World_screenToWorld(CallWorld,
                                                 World_worldToScreen(CallWorld, lastEvent.v)),
                 backward |-> World_worldToScreen(CallWorld,
                                                  World_screenToWorld(CallWorld, lastEvent.v))])

\* A.compose(B).apply(v), A.apply(B.apply(v)) and the two groupings of three
Compose ==
    Return("AffineTransform.compose",
           [composed |-> AffineTransform_apply(
                             AffineTransform_compose(lastEvent.A, lastEvent.B), lastEvent.v),
            nested |-> AffineTransform_apply(lastEvent.A,
                                             AffineTransform_apply(lastEvent.B, lastEvent.v)),
            left |-> AffineTransform_apply(
                         AffineTransform_compose(
                             AffineTransform_compose(lastEvent.A, lastEvent.B), lastEvent.C),
                         lastEvent.v),
            right |-> AffineTransform_apply(
                          AffineTransform_compose(
                              lastEvent.A, AffineTransform_compose(lastEvent.B, lastEvent.C)),
                          lastEvent.v)])

InitAffine == InitCall(AffineCalls)
NextAffine == AffineRoundTrip \/ WorldRoundTrip \/ Compose
SpecAffine == InitAffine /\ [][NextAffine]_vars

\* C17: for a transform T that inverse() accepts, T.inverse().apply(T.apply(v))
\* = v and T.apply(T.inverse().apply(v)) = v; so screenToWorld and
\* worldToScreen undo each other in a world with the view T.
C17_RoundTrip ==
    ((Returned("AffineTransform.inverse") \/ Returned("World.screenToWorld"))
        /\ ~outcome.threw) =>
        /\ outcome.forward = lastEvent.v
        /\ outcome.backward = lastEvent.v

\* the round trip through the world has returned for a rotated view with a
\* translation and a point with a fractional coordinate
C17_Witness ==
    /\ Returned("World.screenToWorld")
    /\ ~outcome.threw
    /\ lastEvent.A.linear.b # Num(0)
    /\ lastEvent.A.translation # Vec2_ZERO
    /\ lastEvent.v.y = Rat(3, 2)
    /\ AffineTransform_apply(lastEvent.A, lastEvent.v) # lastEvent.v

\* C18: A.compose(B).apply(v) = A.apply(B.apply(v)), and A.compose(B).compose(C)
\* maps v to the same point as A.compose(B.compose(C)).
C18_ComposeLaw ==
    Returned("AffineTransform.compose") =>
        /\ outcome.composed = outcome.nested
        /\ outcome.left = outcome.right

\* three different transforms have been composed, and the order of the
\* first two matters at the point
C18_Witness ==
    /\ Returned("AffineTransform.compose")
    /\ lastEvent.A # lastEvent.B
    /\ lastEvent.B # lastEvent.C
    /\ lastEvent.A # lastEvent.C
    /\ outcome.composed #
          AffineTransform_apply(lastEvent.B, AffineTransform_apply(lastEvent.A, lastEvent.v))

\* ------------------------------------------------ getVisibleWorldBounds
\* the bounding box of two opposite corners only
World_getVisibleWorldBounds_diagonal(w, r, margin) ==
    LET Box(viewport) ==
            Polygon_boundingRectangle(
                <<World_screenToWorld(w, Vec2(viewport.minX, viewport.minY)),
                  World_screenToWorld(w, Vec2(viewport.maxX, viewport.maxY))>>)
    IN  Box(World_getViewportRect(r, margin))

World_getVisibleWorldBounds(w, r, margin) ==
    Polygon_boundingRectangle(World_getVisibleWorldPolygon(w, r, margin))

\* margins: none, the two of Axes, and one beyond half the height of the canvas
BoundsMargins == { Num(0), Num(30), Rat(301, 10), Num(60) }
BoundsScreenPoints == { Point(100, 50), Point(30, 30), Point(0, 0), Point(58, 18), Point(170, 70) }

BoundsCalls ==
    [type : {"World.getVisibleWorldBounds"},
     A : AffineTransforms, margin : BoundsMargins, v : BoundsScreenPoints]

GetVisibleWorldBounds ==
    Return("World.getVisibleWorldBounds",
           IF World_getVisibleWorldPolygon_throws(CallWorld) THEN [threw |-> TRUE]
           ELSE [threw |-> FALSE,
                 bounds |-> World_getVisibleWorldBounds(CallWorld, rect, lastEvent.margin)])

InitBounds == InitCall(BoundsCalls)
NextBounds == GetVisibleWorldBounds
SpecBounds == InitBounds /\ [][NextBounds]_vars

\* the corners of the screen rectangle with the margin taken off every side,
\* mapped to the world
MappedCorners ==
    LET lo == lastEvent.margin
        hiX == RSub(Num(rect.width), lastEvent.margin)
        hiY == RSub(Num(rect.height), lastEvent.margin)
    IN  [k \in 1..4 |->
            AffineTransform_apply(AffineTransform_inverse(lastEvent.A),
                                  <<Vec2(lo, lo), Vec2(hiX, lo), Vec2(hiX, hiY), Vec2(lo, hiY)>>[k])]

\* C19: for a view that can be inverted, getVisibleWorldBounds(margin) is the
\* axis-aligned bounding box of the four corners of the screen rectangle
\* shrunk by margin, mapped through the inverse transform; every screen point
\* inside the shrunk rectangle maps under screenToWorld into it.
C19_VisibleWorldBounds ==
    (Returned("World.getVisibleWorldBounds") /\ ~outcome.threw) =>
        /\ \A k \in 1..4 : Inside(outcome.bounds, MappedCorners[k])
        /\ \E k \in 1..4 : MappedCorners[k].x = outcome.bounds.minX
        /\ \E k \in 1..4 : MappedCorners[k].x = outcome.bounds.maxX
        /\ \E k \in 1..4 : MappedCorners[k].y = outcome.bounds.minY
        /\ \E k \in 1..4 : MappedCorners[k].y = outcome.bounds.maxY
        /\ \A q \in BoundsScreenPoints :
              Inside(World_getViewportRect(rect, lastEvent.margin), q)
                 => Inside(outcome.bounds, World_screenToWorld(CallWorld, q))

\* the bounds of a rotated view with a margin have been returned, a screen
\* point lies inside the shrunk rectangle, and the box of two opposite
\* corners would have been smaller
C19_Witness ==
    /\ Returned("World.getVisibleWorldBounds")
    /\ ~outcome.threw
    /\ lastEvent.A.linear.b # Num(0)
    /\ lastEvent.margin = Num(30)
    /\ Inside(World_getViewportRect(rect, lastEvent.margin), Point(58, 30))
    /\ outcome.bounds # World_getVisibleWorldBounds_diagonal(CallWorld, rect, lastEvent.margin)

\* edge i of the polygon of the call runs from vertex i to the next vertex
EdgeStart(i) == lastEvent.vertices[i]
EdgeEnd(i) == lastEvent.vertices[(i % Len(lastEvent.vertices)) + 1]
EdgeBasis(i) ==
    Matrix2_fromColumns(CallLine.direction, Vec2_negative(Vec2_subtract(EdgeEnd(i), EdgeStart(i))))
EdgeParallel(i) == Matrix2_determinant(EdgeBasis(i)) = Num(0)
\* the t of edge i: where along the edge the line meets it
EdgeT(i) ==
    Matrix2_apply(Matrix2_inverse(EdgeBasis(i)), Vec2_subtract(EdgeStart(i), lastEvent.origin)).y
\* the edge that ends at vertex i
EdgeBefore(i) == IF i = 1 THEN Len(lastEvent.vertices) ELSE i - 1
OnLine(point) ==
    LET rel == Vec2_subtract(point, lastEvent.origin)
    IN  RMul(rel.x, lastEvent.direction.y) = RMul(rel.y, lastEvent.direction.x)
\* vertex i lies on the line and neither of its two edges is parallel to it
CornerHit(i) ==
    /\ OnLine(lastEvent.vertices[i])
    /\ ~EdgeParallel(i)
    /\ ~EdgeParallel(EdgeBefore(i))

\* C20: when the line passes through a vertex V of the polygon and is parallel
\* to neither edge at V, the edge that starts at V accepts it with t = 0, the
\* edge that ends at V rejects it with t = 1, and V is in the result once.
C20_VertexOnce ==
    (Returned("Polygon.intersectLine") /\ ~outcome.threw) =>
        \A i \in 1..Len(lastEvent.vertices) :
            CornerHit(i) =>
                /\ EdgeT(i) = Num(0)
                /\ EdgeT(EdgeBefore(i)) = Num(1)
                /\ Cardinality({k \in 1..Len(outcome.points) :
                                   outcome.points[k] = lastEvent.vertices[i]}) = 1

\* a line through a corner that crosses the polygon has returned two points
C20_Witness ==
    /\ Returned("Polygon.intersectLine")
    /\ ~outcome.threw
    /\ \E i \in 1..Len(lastEvent.vertices) : CornerHit(i)
    /\ Len(outcome.points) = 2
    /\ outcome.points[1] # outcome.points[2]

\* ------------------------------------------------------ Numerical (Newton)
\* The callback f handed to findRoot2D.  A callback is described by two
\* affine maps and a shift: f(v) = (v.x >= 0 ? upper : lower).apply(v) - minus.
\* inverse2D(f)(y) hands findRoot2D the callback x => f(x).subtract(y).
Callback(upper, lower) == [upper |-> upper, lower |-> lower, minus |-> Vec2_ZERO]
Callback_apply(f, v) ==
    Vec2_subtract(AffineTransform_apply(IF RLe(Num(0), v.x) THEN f.upper ELSE f.lower, v),
                  f.minus)

\* const h = 1e-5
JacobianStep == Rat(1, 100000)

\* jacobian(f)(v): forward differences with the step h
Numerical_jacobian(f, v) ==
    LET h == JacobianStep
        Differences(fv, fxh, fyh) ==
            Matrix2(RDiv(RSub(fxh.x, fv.x), h), RDiv(RSub(fyh.x, fv.x), h),
                    RDiv(RSub(fxh.y, fv.y), h), RDiv(RSub(fyh.y, fv.y), h))
    IN  Differences(Callback_apply(f, v),
                    Callback_apply(f, Vec2(RAdd(v.x, h), v.y)),
                    Callback_apply(f, Vec2(v.x, RAdd(v.y, h))))

\* y.magnitude() < tolerance for a tolerance > 0, decided on the square:
\* dot < tolerance^2, written dot / tolerance < tolerance (which needs both
\* components below the tolerance, so the square is taken only then)
Vec2_magnitudeBelow(v, tolerance) ==
    /\ RLt(RAbs(v.x), tolerance)
    /\ RLt(RAbs(v.y), tolerance)
    /\ RLt(RDiv(Vec2_dot(v, v), tolerance), tolerance)

\* findRoot2D on entry: let x = initial, i = 0.  trace lists the iterates.
Numerical_findRoot2D_enter(f, initial, maxIterations, tolerance) ==
    [running |-> TRUE, threw |-> FALSE, f |-> f, maxIterations |-> maxIterations,
     tolerance |-> tolerance, i |-> 0, x |-> initial, trace |-> <<initial>>]

\* return x
Numerical_findRoot2D_return(st) == [st EXCEPT !.running = FALSE]

\* the pass with the loop test i <= maxIterations
Numerical_findRoot2D_pass_offByOne(st) ==
    LET Update(J, y) ==
            IF Matrix2_inverse_throws(J) THEN Numerical_findRoot2D_return(st)
            ELSE LET Assign(x) == [st EXCEPT !.x = x, !.i = st.i + 1,
                                             !.trace = Append(st.trace, x)]
                 IN  Assign(Vec2_subtract(st.x, Matrix2_apply(Matrix2_inverse(J), y)))
        Body(y) ==
            IF Vec2_magnitudeBelow(y, st.tolerance) THEN Numerical_findRoot2D_return(st)
            ELSE Update(Numerical_jacobian(st.f, st.x), y)
    IN  IF ~(st.i <= st.maxIterations) THEN Numerical_findRoot2D_return(st)
        ELSE Body(Callback_apply(st.f, st.x))

\* the pass that lets "Matrix is singular" escape
Numerical_findRoot2D_pass_uncaught(st) ==
    LET Update(J, y) ==
            IF Matrix2_inverse_throws(J)
              THEN [Numerical_findRoot2D_return(st) EXCEPT !.threw = TRUE]
            ELSE LET Assign(x) == [st EXCEPT !.x = x, !.i = st.i + 1,
                                             !.trace = Append(st.trace, x)]
                 IN  Assign(Vec2_subtract(st.x, Matrix2_apply(Matrix2_inverse(J), y)))
        Body(y) ==
            IF Vec2_magnitudeBelow(y, st.tolerance) THEN Numerical_findRoot2D_return(st)
            ELSE Update(Numerical_jacobian(st.f, st.x), y)
    IN  IF ~(st.i < st.maxIterations) THEN Numerical_findRoot2D_return(st)
        ELSE Body(Callback_apply(st.f, st.x))

\* one pass of for (let i = 0; i < maxIterations; i++) { ... }: the loop
\* test, then the body; break and the end of the loop lead to return x
Numerical_findRoot2D_pass(st) ==
    LET Update(J, y) ==
            \* catch (e) { break; }
            IF Matrix2_inverse_throws(J) THEN Numerical_findRoot2D_return(st)
            ELSE LET Assign(x) == [st EXCEPT !.x = x, !.i = st.i + 1,
                                             !.trace = Append(st.trace, x)]
                 IN  Assign(Vec2_subtract(st.x, Matrix2_apply(Matrix2_inverse(J), y)))
        Body(y) ==
            IF Vec2_magnitudeBelow(y, st.tolerance) THEN Numerical_findRoot2D_return(st)
            ELSE Update(Numerical_jacobian(st.f, st.x), y)
    IN  IF ~(st.i < st.maxIterations) THEN Numerical_findRoot2D_return(st)
        ELSE Body(Callback_apply(st.f, st.x))

\* the defaults of findRoot2D: initial = new Vec2(1, 1), maxIterations = 20,
\* tolerance = 1e-7
DefaultInitial == Vec2(Num(1), Num(1))
DefaultMaxIterations == 20
DefaultTolerance == Rat(1, 10000000)

\* inverse2D(f)(y)
Numerical_inverse2D_enter(f, y) ==
    Numerical_findRoot2D_enter([f EXCEPT !.minus = y], DefaultInitial,
                               DefaultMaxIterations, DefaultTolerance)

\* ------------------------------------------------------------- root calls
MaxIterations == 3

Linear(a, b, c, d) == Matrix2(Num(a), Num(b), Num(c), Num(d))
Affine(a, b, c, d, tx, ty) == AffineTransform(Linear(a, b, c, d), Point(tx, ty))

\* callbacks: two affine ones with a root, one below the tolerance 1/2 at
\* (1, 1), one whose Newton iterates alternate between x = -1 and x = 1, one
\* that is singular everywhere and one that is singular left of the y axis
RootCallbacks ==
    { Callback(Affine(2, 0, 0, 2, -2, -4), Affine(2, 0, 0, 2, -2, -4)),
      Callback(Affine(1, 1, 1, -1, -3, 1), Affine(1, 1, 1, -1, -3, 1)),
      Callback(AffineTransform(Matrix2(Rat(1, 4), Num(0), Num(0), Rat(1, 4)), Vec2_ZERO),
               AffineTransform(Matrix2(Rat(1, 4), Num(0), Num(0), Rat(1, 4)), Vec2_ZERO)),
      Callback(Affine(1, 0, 0, 1, 1, 0), Affine(1, 0, 0, 1, -1, 0)),
      Callback(Affine(1, 1, 1, 1, 2, 0), Affine(1, 1, 1, 1, 2, 0)),
      Callback(Affine(1, 0, 0, 1, 1, 0), Affine(0, 0, 0, 1, 5, 0)) }
RootInitials == {Point(1, 1), Point(0, 0), Point(3, -2), Point(-1, 2)}
RootTolerances == {DefaultTolerance, Rat(1, 2)}
RootTargets == {Point(0, 0), Point(2, -1)}

RootCalls ==
    [type : {"Numerical.findRoot2D"}, f : RootCallbacks, initial : RootInitials,
     maxIterations : 0..MaxIterations, tolerance : RootTolerances, y : {Vec2_ZERO}]
    \cup
    [type : {"Numerical.inverse2D"}, f : RootCallbacks, initial : {DefaultInitial},
     maxIterations : {DefaultMaxIterations}, tolerance : {DefaultTolerance},
     y : RootTargets]

FindRoot2D ==
    Return("Numerical.findRoot2D",
           Numerical_findRoot2D_enter(lastEvent.f, lastEvent.initial,
                                      lastEvent.maxIterations, lastEvent.tolerance))

Inverse2D ==
    Return("Numerical.inverse2D", Numerical_inverse2D_enter(lastEvent.f, lastEvent.y))

FindRoot2DPass ==
    /\ outcome # Pending
    /\ outcome.running
    /\ outcome' = Numerical_findRoot2D_pass(outcome)
    /\ UNCHANGED <<rect, world, svg, lastEvent, nWheel, nPan, nApi>>

InitRoot == InitCall(RootCalls)
NextRoot == FindRoot2D \/ Inverse2D \/ FindRoot2DPass
SpecRoot == InitRoot /\ [][NextRoot]_vars

RootReturned == outcome # Pending /\ ~outcome.running
\* in the returned call: the number of Newton updates made, the test of the
\* tolerance at an iterate, the singularity of the Jacobian at an iterate
Updates == Len(outcome.trace) - 1
Converged(x) == Vec2_magnitudeBelow(Callback_apply(outcome.f, x), outcome.tolerance)
SingularAt(x) == Matrix2_inverse_throws(Numerical_jacobian(outcome.f, x))
NewtonUpdate(x) ==
    Vec2_subtract(x, Matrix2_apply(Matrix2_inverse(Numerical_jacobian(outcome.f, x)),
                                   Callback_apply(outcome.f, x)))

\* C21: findRoot2D terminates: the pass counter never exceeds maxIterations
\* and every pass either returns or increases it by one.  When it has
\* returned it has made at most maxIterations Newton updates
\* x <- x - J(x)^-1 f(x), none of them from an iterate with
\* |f(x)| < tolerance, it returns the last iterate, and when no iterate met
\* the tolerance (and no Jacobian was singular) it has made maxIterations
\* updates.
C21_FindRootTerminates ==
    /\ [][(outcome # Pending /\ outcome.running /\ outcome'.running)
             => outcome'.i = outcome.i + 1]_vars
    /\ [](outcome # Pending =>
            /\ outcome.i <= outcome.maxIterations
            /\ Updates = outcome.i
            /\ outcome.x = outcome.trace[Len(outcome.trace)]
            /\ \A k \in 1..Updates :
                  /\ ~Converged(outcome.trace[k])
                  /\ outcome.trace[k + 1] = NewtonUpdate(outcome.trace[k])
            /\ (~outcome.running /\ ~Converged(outcome.x) /\ ~SingularAt(outcome.x))
                  => Updates = outcome.maxIterations)

\* a call with maxIterations = 3 has returned after three updates without
\* meeting the tolerance
C21_Witness ==
    /\ RootReturned
    /\ lastEvent.type = "Numerical.findRoot2D"
    /\ outcome.maxIterations = MaxIterations
    /\ Updates = MaxIterations
    /\ ~Converged(outcome.x)

\* C22: when the Jacobian at an iterate is singular (and the iterate does not
\* meet the tolerance and the loop has passes left), that iterate is the last
\* one and is what the call returns; no call of findRoot2D or inverse2D ends
\* with an error, converged or not.
C22_SingularStopsQuietly ==
    RootReturned =>
        /\ ~outcome.threw
        /\ \A k \in 1..Len(outcome.trace) :
              (SingularAt(outcome.trace[k]) /\ ~Converged(outcome.trace[k])
                  /\ k <= outcome.maxIterations)
                => (k = Len(outcome.trace) /\ outcome.x = outcome.trace[k])

\* a call has returned the iterate reached after one update because the
\* Jacobian there is singular
C22_Witness ==
    /\ RootReturned
    /\ Updates = 1
    /\ Updates < outcome.maxIterations
    /\ SingularAt(outcome.x)
    /\ ~Converged(outcome.x)
    /\ outcome.x # lastEvent.initial

\* ----------------------------------------------------------- subdivide(n)
\* the points with the fractions (j + 1)/n
Edge_subdivide_shifted(v, next, n) ==
    [j1 \in 1..n |-> Vec2_add(v, Vec2_scale(Vec2_subtract(next, v), Rat(j1, n)))]

\* Array.from({length: n}, (_, j) => v.add(next.subtract(v).scale(j / n))):
\* index j1 of the sequence is the element j = j1 - 1 of the array
Edge_subdivide(v, next, n) ==
    [j1 \in 1..n |-> Vec2_add(v, Vec2_scale(Vec2_subtract(next, v), Rat(j1 - 1, n)))]

\* Polygon.subdivide: flatMap over the vertices i = i1 - 1, from vertex i1 on
RECURSIVE Polygon_subdivideFrom(_, _, _)
Polygon_subdivideFrom(vertices, n, i1) ==
    IF i1 > Len(vertices) THEN <<>>
    ELSE Edge_subdivide(vertices[i1], vertices[(i1 % Len(vertices)) + 1], n)
            \o Polygon_subdivideFrom(vertices, n, i1 + 1)
Polygon_subdivide(vertices, n) == Polygon_subdivideFrom(vertices, n, 1)

\* Path.subdivide: the last vertex is returned alone
RECURSIVE Path_subdivideFrom(_, _, _)
Path_subdivideFrom(vertices, n, i1) ==
    IF i1 > Len(vertices) THEN <<>>
    ELSE (IF i1 = Len(vertices) THEN <<vertices[i1]>>
          ELSE Edge_subdivide(vertices[i1], vertices[i1 + 1], n))
            \o Path_subdivideFrom(vertices, n, i1 + 1)
Path_subdivide(vertices, n) == Path_subdivideFrom(vertices, n, 1)

MaxSubdivide == 4

\* vertex lists of one to five vertices, some with edges whose n-th parts are
\* not whole numbers
SubdivideVertices ==
    IntersectVertices \cup
    { <<Point(2, 3)>>,
      <<Point(0, 0), Point(6, -12)>>,
      <<Point(1, 1), Point(2, 5), Point(-3, 0)>>,
      <<Point(0, 0), Point(1, 0), Point(1, 0), Point(0, 7)>>,
      <<Point(-5, 2), Point(0, 0), Point(5, 2), Point(3, 9), Point(-3, 9)>> }

SubdivideCalls ==
    [type : {"Polygon.subdivide", "Path.subdivide"}, vertices : SubdivideVertices,
     num : 1..MaxSubdivide]

PolygonSubdivide ==
    Return("Polygon.subdivide",
           [vertices |-> Polygon_subdivide(lastEvent.vertices, lastEvent.num)])

PathSubdivide ==
    Return("Path.subdivide",
           [vertices |-> Path_subdivide(lastEvent.vertices, lastEvent.num)])

InitSubdivide == InitCall(SubdivideCalls)
NextSubdivide == PolygonSubdivide \/ PathSubdivide
SpecSubdivide == InitSubdivide /\ [][NextSubdivide]_vars

\* the number of edges subdivide works on, and the end of edge i
SubdivideEdges ==
    IF lastEvent.type = "Polygon.subdivide" THEN Len(lastEvent.vertices)
    ELSE Len(lastEvent.vertices) - 1
SubdivideEnd(i) == lastEvent.vertices[(i % Len(lastEvent.vertices)) + 1]
\* element k of the result, read cyclically
SubdivideAt(k) == outcome.vertices[((k - 1) % Len(outcome.vertices)) + 1]

\* C23: subdivide(n), n >= 1, returns n*V vertices for a Polygon and
\* n*(V-1)+1 for a Path; original vertex i is element (i-1)*n + 1 of the
\* result, and the n steps from it to the next original vertex (the first one
\* after the last, for a Polygon) are all equal to 1/n of the edge; a Path
\* ends with its final vertex; subdivide(1) returns the vertices unchanged.
C23_Subdivide ==
    (Returned("Polygon.subdivide") \/ Returned("Path.subdivide")) =>
        /\ Len(outcome.vertices) = lastEvent.num * SubdivideEdges
               + (IF lastEvent.type = "Path.subdivide" THEN 1 ELSE 0)
        /\ \A i \in 1..Len(lastEvent.vertices) :
              SubdivideAt((i - 1) * lastEvent.num + 1) = lastEvent.vertices[i]
        /\ \A i \in 1..SubdivideEdges : \A j \in 0..(lastEvent.num - 1) :
              Vec2_subtract(SubdivideAt((i - 1) * lastEvent.num + j + 2),
                            SubdivideAt((i - 1) * lastEvent.num + j + 1))
                = Vec2_scale(Vec2_subtract(SubdivideEnd(i), lastEvent.vertices[i]),
                             Rat(1, lastEvent.num))
        /\ lastEvent.num = 1 => outcome.vertices = lastEvent.vertices

\* a triangle has been subdivided into thirds that are not whole numbers
C23_Witness ==
    /\ Returned("Polygon.subdivide")
    /\ lastEvent.num = 3
    /\ Len(lastEvent.vertices) = 3
    /\ Len(outcome.vertices) = 9
    /\ ~IsInteger(outcome.vertices[2].x)
    /\ outcome.vertices[9] # lastEvent.vertices[3]

\* ------------------------------------------------ InfiniteGrid: cell size
\* Math.ceil(Math.log10(Math.sqrt(q))) for q > 0, decided on the square: the
\* least k with 100^k >= q
RECURSIVE CeilLog10Sqrt(_)
CeilLog10Sqrt(q) ==
    IF RLt(Num(1), q) THEN CeilLog10Sqrt(RDiv(q, Num(100))) + 1
    ELSE IF RLe(q, Rat(1, 100)) THEN CeilLog10Sqrt(RMul(q, Num(100))) - 1
    ELSE 0

\* Math.floor in the place of Math.ceil: the greatest k with 100^k <= q
RECURSIVE FloorLog10Sqrt(_)
FloorLog10Sqrt(q) ==
    IF RLe(Num(100), q) THEN FloorLog10Sqrt(RDiv(q, Num(100))) + 1
    ELSE IF RLt(q, Num(1)) THEN FloorLog10Sqrt(RMul(q, Num(100))) - 1
    ELSE 0
InfiniteGrid_zoomLevelInt_floor(linear, size) ==
    FloorLog10Sqrt(RDiv(RAbs(Matrix2_determinant(linear)), Num(size * size)))

\* zoomLevel = Math.sqrt(Math.abs(linear.determinant()));
\* zoomLevelInt = Math.ceil(Math.log10(zoomLevel / size))
InfiniteGrid_zoomLevelInt(linear, size) ==
    CeilLog10Sqrt(RDiv(RAbs(Matrix2_determinant(linear)), Num(size * size)))

\* Math.pow(0.1, k)
Math_powTenth(k) == IF k >= 0 THEN Rat(1, 10 ^ k) ELSE Num(10 ^ (-k))

InfiniteGrid_cellSize(linear, size) == Math_powTenth(InfiniteGrid_zoomLevelInt(linear, size))

\* views with the zoom levels 50, 5, 500, 1, 1/2, 1/20, 25, 250, 5 (rotated),
\* 10, 75, 100 and the irrational ones sqrt(21), sqrt(2), sqrt(1000)
GridLinears ==
    { Linear(50, 0, 0, -50), Linear(5, 0, 0, -5), Linear(500, 0, 0, -500),
      Linear(1, 0, 0, -1), Linear(25, 0, 0, -25), Linear(250, 0, 0, -250),
      Linear(3, 4, 4, -3), Linear(10, 0, 0, -10), Linear(75, 0, 0, -75),
      Linear(100, 0, 0, -100), Linear(7, 0, 0, -3), Linear(1, 1, 1, -1),
      Linear(100, 0, 0, -10),
      Matrix2(Rat(1, 2), Num(0), Num(0), Rat(-1, 2)),
      Matrix2(Rat(1, 20), Num(0), Num(0), Rat(-1, 20)) }
\* the attribute size: its default, its limits and a value between
GridSizes == {50, 75, 100, 500}

GridCalls == [type : {"InfiniteGrid.draw"}, linear : GridLinears, size : GridSizes]

\* the cell size at the view and at the view zoomed in by the factor 10
InfiniteGridDraw ==
    Return("InfiniteGrid.draw",
           [cellSize |-> InfiniteGrid_cellSize(lastEvent.linear, lastEvent.size),
            tenfold |-> InfiniteGrid_cellSize(Matrix2_scale(lastEvent.linear, Num(10)),
                                              lastEvent.size)])

InitGrid == InitCall(GridCalls)
NextGrid == InfiniteGridDraw
SpecGrid == InitGrid /\ [][NextGrid]_vars

\* the square of the on-screen spacing zoom * cellSize, and of the size
SpacingSquared ==
    RMul(RAbs(Matrix2_determinant(lastEvent.linear)), RMul(outcome.cellSize, outcome.cellSize))
SizeSquared == Num(lastEvent.size * lastEvent.size)
IsPowerOfTen(p) == \E k \in 0..6 : p = Num(10 ^ k) \/ p = Rat(1, 10 ^ k)

\* C24: for a zoom level z > 0 and a size s > 0 the cell size is a power of
\* ten, the spacing z * cellSize lies in (s/10, s], and at ten times the zoom
\* the cell size is a tenth.
C24_CellSize ==
    Returned("InfiniteGrid.draw") =>
        /\ IsPowerOfTen(outcome.cellSize)
        /\ RLt(RDiv(SizeSquared, Num(100)), SpacingSquared)
        /\ RLe(SpacingSquared, SizeSquared)
        /\ outcome.tenfold = RDiv(outcome.cellSize, Num(10))

\* the grid has been drawn at the irrational zoom level sqrt(21) with cells
\* of ten units
C24_Witness ==
    /\ Returned("InfiniteGrid.draw")
    /\ lastEvent.linear = Linear(7, 0, 0, -3)
    /\ lastEvent.size = 50
    /\ outcome.cellSize = Num(10)
    /\ outcome.tenfold = Num(1)

\* ----------------------------------------------------- many wheel ticks
\* After k zoom ticks the entries of the linear part carry the factor
\* (13/10)^k, which leaves the range of the numerators.  Here the linear part
\* is kept as mantissa * (13/10)^power, the mantissa a Matrix2 whose entries
\* have no common factor 13/10 left, and the test against Number.EPSILON is
\* decided on natural numbers of any length.

\* natural numbers as sequences of digits to the base 10000, lowest first
RECURSIVE BigOf(_)
BigOf(i) == IF i = 0 THEN <<>> ELSE <<i % 10000>> \o BigOf(i \div 10000)
\* digits i.. of big * factor + carry, for a factor below 10000
RECURSIVE BigTimesFrom(_, _, _, _)
BigTimesFrom(big, factor, i, carry) ==
    IF i > Len(big) THEN BigOf(carry)
    ELSE CHOOSE digits \in
            { <<t % 10000>> \o BigTimesFrom(big, factor, j, t \div 10000) :
                  t \in {big[i] * factor + carry}, j \in {i + 1} } : TRUE
\* big * factor^k, as (big * factor^(k \div 2)) * factor^(k - k \div 2)
RECURSIVE BigTimesPower(_, _, _)
BigTimesPower(big, factor, k) ==
    IF k <= 0 THEN big
    ELSE IF k = 1 THEN BigTimesFrom(big, factor, 1, 0)
    ELSE CHOOSE product \in
            { BigTimesPower(half, factor, k - (k \div 2)) :
                  half \in {BigTimesPower(big, factor, k \div 2)} } : TRUE
RECURSIVE BigLessFrom(_, _, _)
BigLessFrom(a, b, i) ==
    IF i = 0 THEN FALSE
    ELSE IF a[i] # b[i] THEN a[i] < b[i]
    ELSE BigLessFrom(a, b, i - 1)
BigLess(a, b) == IF Len(a) # Len(b) THEN Len(a) < Len(b) ELSE BigLessFrom(a, b, Len(a))

RECURSIVE ZoomedMatrix(_, _)
ZoomedMatrix(m, power) ==
    LET entries == {m.a, m.b, m.c, m.d}
    IN  IF \A x \in entries : x.n = 0 THEN [mantissa |-> m, power |-> 0]
        ELSE IF \A x \in entries : x.n % 13 = 0
          THEN ZoomedMatrix(Matrix2_scale(m, Rat(10, 13)), power + 1)
        ELSE IF \A x \in entries : x.n = 0 \/ x.d % 13 = 0
          THEN ZoomedMatrix(Matrix2_scale(m, Rat(13, 10)), power - 1)
        ELSE [mantissa |-> m, power |-> power]

\* multiply(other) with a Matrix2 other
Zoomed_multiply(z, other) == ZoomedMatrix(Matrix2_multiply(z.mantissa, other), z.power)

\* Math.abs(det) < Number.EPSILON, where det = n / (d * 2^e) * (169/100)^power:
\* |n| * 169^power * 2^52 < d * 2^e * 100^power, with the power on the other
\* side when it is negative
Zoomed_inverse_throws(z) ==
    LET Below(det) ==
            BigLess(BigTimesPower(BigTimesPower(BigTimesPower(BigOf(Abs(det.n)),
                                                              169, z.power),
                                                100, -z.power),
                                  2, EpsilonExponent),
                    BigTimesPower(BigTimesPower(BigTimesPower(BigOf(det.d), 2, det.e),
                                                100, z.power),
                                  169, -z.power))
    IN  Below(Matrix2_determinant(z.mantissa))

Zoomed_inverse(z) ==
    LET Inverted(m) == [mantissa |-> m.mantissa, power |-> m.power - z.power]
    IN  Inverted(ZoomedMatrix(Matrix2_inverse(z.mantissa), 0))

\* apply(vector); the factor (13/10)^power is multiplied in only for a vector
\* that is not zero
Zoomed_apply(z, vector) ==
    IF vector = Vec2_ZERO THEN Vec2_ZERO
    ELSE Vec2_scale(Matrix2_apply(z.mantissa, vector),
                    IF z.power >= 0 THEN Rat(13 ^ z.power, 10 ^ z.power)
                    ELSE Rat(10 ^ (-z.power), 13 ^ (-z.power)))

\* the world with its linear part kept this way
ZoomedWorld(w) ==
    [w EXCEPT !.worldToScreenTransform.linear = ZoomedMatrix(@, 0)]

\* screenToWorld: inverse().apply(vector) = linear^-1 (vector - translation)
Zoomed_screenToWorld_throws(w) == Zoomed_inverse_throws(w.worldToScreenTransform.linear)
Zoomed_screenToWorld(w, vector) ==
    Zoomed_apply(Zoomed_inverse(w.worldToScreenTransform.linear),
                 Vec2_subtract(vector, w.worldToScreenTransform.translation))

Zoomed_applyZoom(w, transformation, fixedPoint) ==
    LET currentMatrix == w.worldToScreenTransform.linear
        currentVector == w.worldToScreenTransform.translation
        fixedScreen == Vec2_add(Zoomed_apply(currentMatrix, fixedPoint), currentVector)
        Update(newMatrix) ==
            LET newFixedScreen == Vec2_add(Zoomed_apply(newMatrix, fixedPoint), currentVector)
                offset == Vec2_subtract(fixedScreen, newFixedScreen)
            IN  [w EXCEPT !.worldToScreenTransform =
                    AffineTransform(newMatrix, Vec2_add(currentVector, offset))]
    IN  Update(Zoomed_multiply(currentMatrix, transformation))

\* handleMouseScroll up to this.draw(): the render pass reads the transform
\* and rewrites the SVG children only, which are not followed here
Zoomed_handleMouseScroll(w, children, r, event) ==
    LET isRotation == event.shiftKey
        transformation == IF isRotation THEN w.rotationFactorMatrix ELSE w.zoomFactorMatrix
        zoomDirection == event.deltaY
        Zoom(zoomCenter) ==
            IF zoomDirection < 0
              THEN Zoomed_applyZoom(w, transformation, zoomCenter)
            ELSE IF zoomDirection > 0 /\ ~Matrix2_inverse_throws(transformation)
              THEN Zoomed_applyZoom(w, Matrix2_inverse(transformation), zoomCenter)
            ELSE w
    IN  IF Zoomed_screenToWorld_throws(w)
          THEN Handled(w, children, TRUE, FALSE)
          ELSE Handled(Zoom(Zoomed_screenToWorld(w, World_getMousePosition(r, event))),
                       children, FALSE, TRUE)

MaxTicks == 90      \* net zoom ticks in one direction

\* the pointer rests where the world origin is shown on the screen
OriginClientPoint == <<RectLeft + 100, RectTop + 50>>

InitTicks ==
    /\ rect = Rect
    /\ \E page \in {Main(Rect)} :
          /\ world = ZoomedWorld(page.world)
          /\ svg = page.svg
          /\ outcome = [threw |-> page.threw, drew |-> TRUE]
    /\ lastEvent = NoEvent
    /\ nWheel = 0 /\ nPan = 0 /\ nApi = 0

WheelTick ==
    \E deltaY \in DeltaYs :
        /\ Abs(world.worldToScreenTransform.linear.power) < MaxTicks
        /\ \E h \in {Zoomed_handleMouseScroll(world, svg, rect,
                                              WheelEvent(OriginClientPoint, FALSE, deltaY))} :
              Deliver(WheelEvent(OriginClientPoint, FALSE, deltaY), h)
        /\ UNCHANGED <<nWheel, nPan, nApi>>

NextTicks == WheelTick
SpecTicks == InitTicks /\ [][NextTicks]_vars

\* C25: in every state reached from the initial viewport by wheel events the
\* linear part passes the singularity test of Matrix2.inverse, and no wheel
\* handler throws, however many zoom-out ticks have occurred.
C25_NeverSingular ==
    /\ ~Zoomed_inverse_throws(world.worldToScreenTransform.linear)
    /\ lastEvent.type = "wheel" => ~outcome.threw

MaxRow == 2         \* wheel events per behaviour

InitRow ==
    /\ rect = Rect
    /\ \E page \in {Main(Rect)} :
          /\ world = page.world
          /\ svg = page.svg
          /\ outcome = [threw |-> page.threw, drew |-> TRUE, previousThrew |-> FALSE,
                        previousEvent |-> NoEvent,
                        before |-> page.world.worldToScreenTransform,
                        beforePrevious |-> page.world.worldToScreenTransform]
    /\ lastEvent = NoEvent
    /\ nWheel = 0 /\ nPan = 0 /\ nApi = 0

WheelInRow ==
    \E c \in ClientPoints, shiftKey \in BOOLEAN, deltaY \in DeltaYs :
        /\ nWheel < MaxRow
        /\ \E h \in {World_handleMouseScroll(world, svg, rect, WheelEvent(c, shiftKey, deltaY))} :
              /\ world' = h.world
              /\ svg' = h.svg
              /\ outcome' = [threw |-> h.threw, drew |-> h.drew,
                             previousThrew |-> outcome.threw,
                             previousEvent |-> lastEvent,
                             before |-> world.worldToScreenTransform,
                             beforePrevious |-> outcome.before]
              /\ lastEvent' = WheelEvent(c, shiftKey, deltaY)
              /\ rect' = rect
        /\ nWheel' = nWheel + 1
        /\ UNCHANGED <<nPan, nApi>>

NextRow == WheelInRow
SpecRow == InitRow /\ [][NextRow]_vars

\* the last two events were wheel ticks of opposite direction at the same
\* pointer position with the same modifier state
OppositeTicks ==
    /\ nWheel >= 2
    /\ outcome.previousEvent.clientX = lastEvent.clientX
    /\ outcome.previousEvent.clientY = lastEvent.clientY
    /\ outcome.previousEvent.shiftKey = lastEvent.shiftKey
    /\ \/ outcome.previousEvent.deltaY < 0 /\ lastEvent.deltaY > 0
       \/ outcome.previousEvent.deltaY > 0 /\ lastEvent.deltaY < 0

\* C27: a wheel tick with deltaY < 0 and one with deltaY > 0, in either
\* order, at the same pointer position and with the same modifier state
\* restore worldToScreenTransform, linear part and translation.
C27_OppositeTicksRestore ==
    (OppositeTicks /\ ~outcome.threw /\ ~outcome.previousThrew) =>
        /\ Transform.linear = outcome.beforePrevious.linear
        /\ Transform.translation = outcome.beforePrevious.translation

\* a zoom-out tick has undone a zoom-in tick that had moved the translation
C27_Witness ==
    /\ OppositeTicks
    /\ ~lastEvent.shiftKey
    /\ lastEvent.deltaY > 0
    /\ ~outcome.threw
    /\ outcome.before.translation # outcome.beforePrevious.translation
    /\ outcome.before.linear # outcome.beforePrevious.linear
    /\ Transform = outcome.beforePrevious

\* C28: a pointer-move received while the controller is Idle leaves
\* worldToScreenTransform, isDragging, lastMousePosition and
\* currentMousePosition as they were, and triggers no redraw.
C28_IdleMoveIgnored ==
    [][(lastEvent'.type = "mousemove" /\ ~world.isDragging) =>
          /\ Transform' = Transform
          /\ world'.isDragging = world.isDragging
          /\ world'.lastMousePosition = world.lastMousePosition
          /\ world'.currentMousePosition = world.currentMousePosition
          /\ svg' = svg
          /\ ~outcome'.drew]_vars

\* an idle pointer-move has arrived at a position the controller has not
\* recorded, after a drag that had ended
C28_Witness ==
    /\ lastEvent.type = "mousemove"
    /\ ~world.isDragging
    /\ ~outcome.drew
    /\ nPan = 1
    /\ PointerOf(lastEvent) # world.currentMousePosition
    /\ PointerOf(lastEvent) # world.lastMousePosition

\* C29: for a margin d >= 0, r.shrink(d) lies inside r and is no wider and
\* no higher than r, also when d exceeds half of r's width or height.
C29_ShrinkContained ==
    (Returned("Rectangle.shrink") /\ RLe(Num(0), lastEvent.arg)) =>
        /\ RLe(CallRectangle.minX, outcome.minX) /\ RLe(outcome.maxX, CallRectangle.maxX)
        /\ RLe(CallRectangle.minY, outcome.minY) /\ RLe(outcome.maxY, CallRectangle.maxY)
        /\ RLe(RSub(outcome.maxX, outcome.minX), RSub(CallRectangle.maxX, CallRectangle.minX))
        /\ RLe(RSub(outcome.maxY, outcome.minY), RSub(CallRectangle.maxY, CallRectangle.minY))

\* ------------------------------------------ creating and deleting shapes
\* Shape.delete of the shape at position i of world.shapes: its SVG element
\* goes, and shapes.splice(shapes.indexOf(this), 1)
Shape_delete(w, children, i) ==
    [world |-> [w EXCEPT !.shapes = SubSeq(@, 1, i - 1) \o SubSeq(@, i + 1, Len(@))],
     svg |-> RemoveById(children, w.shapes[i].id)]

MaxId == 5          \* shapes created per behaviour, the three of the page included

\* the page; outcome also keeps the ids of the shapes deleted so far
InitShapes ==
    /\ rect = Rect
    /\ \E page \in {Main(Rect)} :
          /\ world = page.world
          /\ svg = page.svg
          /\ outcome = [threw |-> page.threw, drew |-> TRUE, deleted |-> {}]
    /\ lastEvent = NoEvent
    /\ nWheel = 0 /\ nPan = 0 /\ nApi = 0

\* a click on #new-grid, #new-axes or #new-graph
NewShape ==
    \E kind \in {"grid", "axes", "graph"} :
        /\ world.id < MaxId
        /\ \E st \in {Shape_constructor([world |-> world, svg |-> svg, threw |-> FALSE],
                                        kind, rect)} :
              /\ world' = st.world
              /\ svg' = st.svg
              /\ outcome' = [threw |-> st.threw, drew |-> FALSE, deleted |-> outcome.deleted]
        /\ lastEvent' = [type |-> "new", kind |-> kind]
        /\ UNCHANGED <<rect, nWheel, nPan, nApi>>

\* a click on the delete button of the shape at position i
DeleteShape ==
    \E i \in 1..Len(world.shapes) :
        /\ \E st \in {Shape_delete(world, svg, i)} :
              /\ world' = st.world
              /\ svg' = st.svg
        /\ outcome' = [threw |-> FALSE, drew |-> FALSE,
                       deleted |-> outcome.deleted \cup {world.shapes[i].id}]
        /\ lastEvent' = [type |-> "delete", kind |-> world.shapes[i].kind]
        /\ UNCHANGED <<rect, nWheel, nPan, nApi>>

NextShapes == NewShape \/ DeleteShape
SpecShapes == InitShapes /\ [][NextShapes]_vars

\* C30: after any creations and deletions the shapes of world.shapes have
\* pairwise distinct ids, no shape has the id of a shape deleted before, and
\* world.id never decreases.
C30_DistinctIds ==
    /\ [](\A i, j \in 1..Len(world.shapes) :
             i # j => world.shapes[i].id # world.shapes[j].id)
    /\ [](\A i \in 1..Len(world.shapes) : world.shapes[i].id \notin outcome.deleted)
    /\ [][world'.id >= world.id]_vars

\* a shape has been created after two shapes, one of them of the page, were
\* deleted
C30_Witness ==
    /\ lastEvent.type = "new"
    /\ Cardinality(outcome.deleted) = 2
    /\ 1 \in outcome.deleted
    /\ Len(world.shapes) = 3
    /\ world.shapes[3].id = 4

====
